---- MODULE Spec2Model ----
(***************************************************************************)
(* A model of the SAID SDK (kaiclawd/said-sdk): the account codec          *)
(* (parseAgentData), the address deriver (deriveAgentPDA), the instruction *)
(* builders and the identity client's lookup, in the TypeScript source     *)
(* (src/index.ts, the "strict" variant) and in the shipped dist build      *)
(* (the "lenient" variant).                                                *)
(*                                                                         *)
(* Conventions.  A Buffer is a sequence of bytes (0..255); the code's      *)
(* 0-based offset i is the element i+1.  A string is the sequence of its   *)
(* Unicode code points.  A thrown Error is the record                      *)
(* [throw |-> <<fragment, ...>>] whose fragments concatenate to the        *)
(* message.  The client holds no state between calls; call records the    *)
(* last call of the API and, where two calls are compared, the one before. *)
(***************************************************************************)
EXTENDS Integers, Sequences, FiniteSets, TLC

VARIABLES chain, call

vars == <<chain, call>>

\* ------------------------------------------------------------------ bounds

\* Number of non-zero test keys (the all-zero key is always a test key).
NumKeys == 2

\* Buffers handed to the codec are at most AGENT_ACCOUNT_SIZE + MaxExtra long.
MaxExtra == 1

\* A non-zero test key is a number of at most KeyDigits bytes (a key is always
\* 32 bytes: the leading ones are zero).
KeyDigits == 3

\* ------------------------------------------------------- program constants

AGENT_ACCOUNT_SIZE == 263

REGISTER_AGENT_DISCRIMINATOR == <<135, 157, 66, 195, 2, 113, 175, 30>>

GET_VERIFIED_DISCRIMINATOR == <<132, 231, 2, 30, 115, 74, 23, 26>>

\* Addresses the model treats as opaque names.
SAID_PROGRAM_ID == [program |-> "5dpw6KEQPn248pnkkaYyWfHwu2nfb3LUMbTucb6LaA8G"]

TREASURY_PDA == [address |-> "2XfHTeNWTjNwUmgoXaafYuqHcAAXj8F5Kjw2Bnzi4FxH"]

SystemProgramId == [program |-> "11111111111111111111111111111111"]

\* ------------------------------------------------------------ byte helpers

Min(a, b) == IF a < b THEN a ELSE b

Max(a, b) == IF a > b THEN a ELSE b

Rep(x, n) == [i \in 1..n |-> x]

Throw(msg) == [throw |-> msg]

IsThrow(r) == "throw" \in DOMAIN r

\* Buffer.subarray(start, end): both ends are clamped to the buffer.
SubArray(data, start, end) ==
    LET s == Min(start, Len(data))
        e == Min(Max(end, s), Len(data))
    IN  [i \in 1..(e - s) |-> data[s + i]]

\* The indices Buffer.subarray(start, end) exposes.
SubArrayReads(data, start, end) ==
    start..(Min(end, Len(data)) - 1)

\* Buffer.readUInt32LE(off); the caller has checked off + 4 <= length.
ReadUInt32LE(data, off) ==
    data[off + 1] + data[off + 2] * 256 + data[off + 3] * 65536
        + data[off + 4] * 16777216

\* Buffer.writeUInt32LE(n, 0) into Buffer.alloc(4).
WriteUInt32LE(n) ==
    <<n % 256, (n \div 256) % 256, (n \div 65536) % 256,
      (n \div 16777216) % 256>>

\* Number(Buffer.readBigInt64LE(off)); the caller has checked off + 8 <= length.
\* A value outside the signed 32-bit range is kept as the term [wide |-> bytes].
ReadBigInt64LE(data, off) ==
    LET b == [i \in 1..8 |-> data[off + i]]
        low == b[1] + b[2] * 256 + b[3] * 65536 + (b[4] % 128) * 16777216
        hiAll(v) == \A i \in 5..8 : b[i] = v
    IN  IF hiAll(0) /\ b[4] < 128 THEN low
        ELSE IF hiAll(255) /\ b[4] >= 128 THEN low - 2147483647 - 1
        ELSE [wide |-> b]

\* ------------------------------------------------------------------ UTF-8

IsCont(b) == b >= 128 /\ b <= 191

\* The UTF-8 bytes of one code point.
Utf8Char(c) ==
    IF c < 128 THEN <<c>>
    ELSE IF c < 2048 THEN <<192 + (c \div 64), 128 + (c % 64)>>
    ELSE IF c < 65536
         THEN <<224 + (c \div 4096), 128 + ((c \div 64) % 64),
                128 + (c % 64)>>
    ELSE <<240 + (c \div 262144), 128 + ((c \div 4096) % 64),
           128 + ((c \div 64) % 64), 128 + (c % 64)>>

RECURSIVE Utf8Range(_, _, _)
Utf8Range(s, lo, hi) ==
    IF lo > hi THEN <<>>
    ELSE IF lo = hi THEN Utf8Char(s[lo])
    ELSE Utf8Range(s, lo, (lo + hi) \div 2)
             \o Utf8Range(s, ((lo + hi) \div 2) + 1, hi)

\* Buffer.from(str, 'utf8').
Utf8Bytes(s) == Utf8Range(s, 1, Len(s))

\* The length of the well-formed sequence the byte at i leads, 0 if none.
SeqLen(b, i) ==
    LET c == b[i]
        has(k) == i + k <= Len(b) /\ \A j \in 1..k : IsCont(b[i + j])
    IN  IF c < 128 THEN 1
        ELSE IF c >= 194 /\ c <= 223 /\ has(1) THEN 2
        ELSE IF c >= 224 /\ c <= 239 /\ has(2)
                /\ (c = 224 => b[i + 1] >= 160)
                /\ (c = 237 => b[i + 1] <= 159) THEN 3
        ELSE IF c >= 240 /\ c <= 244 /\ has(3)
                /\ (c = 240 => b[i + 1] >= 144)
                /\ (c = 244 => b[i + 1] <= 143) THEN 4
        ELSE 0

\* The byte at i is a continuation byte of a well-formed sequence.
Continues(b, i) ==
    \E j \in 1..3 : i - j >= 1 /\ b[i - j] >= 128 /\ SeqLen(b, i - j) > j

\* What the byte at i decodes to: nothing inside a sequence, the code point
\* of the sequence it leads, U+FFFD (65533) when ill-formed.
Utf8Unit(b, i) ==
    LET c == b[i]
        n == SeqLen(b, i)
        t(k) == b[i + k] - 128
    IN  IF Continues(b, i) THEN <<>>
        ELSE IF n = 1 THEN <<c>>
        ELSE IF n = 2 THEN <<(c - 192) * 64 + t(1)>>
        ELSE IF n = 3 THEN <<(c - 224) * 4096 + t(1) * 64 + t(2)>>
        ELSE IF n = 4
             THEN <<(c - 240) * 262144 + t(1) * 4096 + t(2) * 64 + t(3)>>
        ELSE <<65533>>

RECURSIVE Utf8Decode(_, _, _)
Utf8Decode(b, lo, hi) ==
    IF lo > hi THEN <<>>
    ELSE IF lo = hi THEN Utf8Unit(b, lo)
    ELSE Utf8Decode(b, lo, (lo + hi) \div 2)
             \o Utf8Decode(b, ((lo + hi) \div 2) + 1, hi)

\* buf.toString('utf8').
Utf8ToString(b) == Utf8Decode(b, 1, Len(b))

\* ----------------------------------------------------------------- base58

\* "123456789ABCDEFGHJKLMNPQRSTUVWXYZabcdefghijkmnopqrstuvwxyz" as code points.
ALPHABET ==
    [i \in 1..9 |-> 48 + i] \o [i \in 1..8 |-> 64 + i]
        \o [i \in 1..5 |-> 73 + i] \o [i \in 1..11 |-> 79 + i]
        \o [i \in 1..11 |-> 96 + i] \o [i \in 1..14 |-> 108 + i]

\* The number of leading elements of s, from index i on, that equal v.
LeadingCount(s, v, i) ==
    IF \A j \in i..Len(s) : s[j] = v THEN Max(Len(s) - i + 1, 0)
    ELSE (CHOOSE j \in i..Len(s) :
              s[j] # v /\ \A k \in i..(j - 1) : s[k] = v) - i

StripZeros(n) == SubSeq(n, LeadingCount(n, 0, 1) + 1, Len(n))

\* One long division of the big-endian base-256 number n by 58:
\* <<quotient (same length), remainder>>.
RECURSIVE DivMod58(_, _, _, _)
DivMod58(n, i, carry, quot) ==
    IF i > Len(n) THEN <<quot, carry>>
    ELSE LET cur == carry * 256 + n[i]
         IN  DivMod58(n, i + 1, cur % 58, Append(quot, cur \div 58))

RECURSIVE Base58Digits(_, _)
Base58Digits(n, acc) ==
    IF n = <<>> THEN acc
    ELSE LET dm == DivMod58(n, 1, 0, <<>>)
         IN  Base58Digits(StripZeros(dm[1]), <<ALPHABET[dm[2] + 1]>> \o acc)

\* bs58.encode(bytes): one '1' per leading zero byte, then the digits.
Base58Encode(bytes) ==
    Rep(ALPHABET[1], LeadingCount(bytes, 0, 1))
        \o Base58Digits(StripZeros(bytes), <<>>)

CharIndex(c) ==
    IF \E k \in 1..58 : ALPHABET[k] = c
    THEN (CHOOSE k \in 1..58 : ALPHABET[k] = c) - 1
    ELSE -1

\* n * 58 + d on a big-endian base-256 number, least significant byte first.
RECURSIVE MulAdd58(_, _, _, _)
MulAdd58(n, i, carry, acc) ==
    IF i = 0
    THEN (IF carry = 0 THEN acc ELSE <<carry>> \o acc)
    ELSE LET cur == n[i] * 58 + carry
         IN  MulAdd58(n, i - 1, cur \div 256, <<cur % 256>> \o acc)

RECURSIVE Base58Number(_, _, _)
Base58Number(s, i, n) ==
    IF i > Len(s) THEN n
    ELSE Base58Number(s, i + 1, MulAdd58(n, Len(n), CharIndex(s[i]), <<>>))

\* bs58.decode(str): throws on a character outside the alphabet.
Base58Decode(s) ==
    IF \E i \in 1..Len(s) : CharIndex(s[i]) < 0
    THEN Throw(<<"Non-base58 character">>)
    ELSE [bytes |-> Rep(0, LeadingCount(s, ALPHABET[1], 1))
                    \o Base58Number(s, LeadingCount(s, ALPHABET[1], 1) + 1,
                                    <<>>)]

\* -------------------------------------------------------------- PublicKey

\* A PublicKey is [key |-> 32 bytes]; a program-derived address, whose hash
\* the model does not compute, is the term FindProgramAddressSync builds.
\* A string argument of the API is [str |-> code points].

Str(s) == [str |-> s]

IsString(x) == "str" \in DOMAIN x

\* new PublicKey(value) for a string: base58, exactly 32 bytes.
PublicKeyFromString(s) ==
    LET decoded == Base58Decode(s)
    IN  IF IsThrow(decoded) THEN decoded
        ELSE IF Len(decoded.bytes) # 32
             THEN Throw(<<"Invalid public key", " input">>)
        ELSE [key |-> decoded.bytes]

\* new PublicKey(value) for at most 32 bytes: the number they spell.
PublicKeyFromBytes(b) == [key |-> Rep(0, 32 - Len(b)) \o b]

\* PublicKey.toString(): the base58 form of the 32 bytes.
PublicKeyToString(k) ==
    IF "key" \in DOMAIN k THEN Base58Encode(k.key) ELSE <<k>>

\* PublicKey.findProgramAddressSync(seeds, programId): the pair [address,
\* bump], as a record.  The hash is a free constructor: equal inputs, and only
\* equal inputs, give the same address and bump.
FindProgramAddressSync(seeds, programId) ==
    [address |-> [pda |-> seeds, program |-> programId],
     bump |-> [bumpOf |-> seeds, program |-> programId]]

\* deriveAgentPDA taking the characters of a string owner for the seed.
deriveAgentPDA_RawString(owner) ==
    IF IsString(owner)
    THEN FindProgramAddressSync(<<"agent", Utf8Bytes(owner.str)>>,
                                SAID_PROGRAM_ID)
    ELSE FindProgramAddressSync(<<"agent", owner.key>>, SAID_PROGRAM_ID)

\* SAID.deriveAgentPDA(owner): throws what new PublicKey(owner) throws.
deriveAgentPDA(owner) ==
    LET ownerKey == IF IsString(owner) THEN PublicKeyFromString(owner.str)
                    ELSE owner
    IN  IF IsThrow(ownerKey) THEN ownerKey
        ELSE FindProgramAddressSync(<<"agent", ownerKey.key>>,
                                    SAID_PROGRAM_ID)

\* deriveAgentPDA(owner) of the multi-wallet module: a key only.
deriveAgentPDA_MultiWallet(owner) ==
    FindProgramAddressSync(<<"agent", owner.key>>, SAID_PROGRAM_ID)

\* ------------------------------------------------- instruction builders

AccountMeta(pubkey, isSigner, isWritable) ==
    [pubkey |-> pubkey, isSigner |-> isSigner, isWritable |-> isWritable]

TransactionInstruction(keys, programId, data) ==
    [keys |-> keys, programId |-> programId, data |-> data]

\* buildRegisterInstruction writing the string's length in characters.
buildRegisterInstruction_CharLength(agentPDA, owner, metadataUri) ==
    LET uriBytes == Utf8Bytes(metadataUri)
        uriLengthBuffer == WriteUInt32LE(Len(metadataUri))
        data == REGISTER_AGENT_DISCRIMINATOR \o uriLengthBuffer \o uriBytes
    IN  TransactionInstruction(
            <<AccountMeta(agentPDA, FALSE, TRUE),
              AccountMeta(owner, TRUE, TRUE),
              AccountMeta(SystemProgramId, FALSE, FALSE)>>,
            SAID_PROGRAM_ID, data)

\* SAID.buildRegisterInstruction(agentPDA, owner, metadataUri).
buildRegisterInstruction(agentPDA, owner, metadataUri) ==
    LET uriBytes == Utf8Bytes(metadataUri)
        uriLengthBuffer == WriteUInt32LE(Len(uriBytes))
        data == REGISTER_AGENT_DISCRIMINATOR \o uriLengthBuffer \o uriBytes
    IN  TransactionInstruction(
            <<AccountMeta(agentPDA, FALSE, TRUE),
              AccountMeta(owner, TRUE, TRUE),
              AccountMeta(SystemProgramId, FALSE, FALSE)>>,
            SAID_PROGRAM_ID, data)

\* SAID.buildVerifyInstruction(agentPDA, owner), src/index.ts.
buildVerifyInstruction(agentPDA, owner) ==
    TransactionInstruction(
        <<AccountMeta(agentPDA, FALSE, TRUE),
          AccountMeta(TREASURY_PDA, FALSE, TRUE),
          AccountMeta(owner, TRUE, TRUE),
          AccountMeta(SystemProgramId, FALSE, FALSE)>>,
        SAID_PROGRAM_ID, GET_VERIFIED_DISCRIMINATOR)

\* SAID.buildVerifyInstruction(agentPDA, owner), dist/index.mjs.
buildVerifyInstructionDist(agentPDA, owner) ==
    TransactionInstruction(
        <<AccountMeta(agentPDA, FALSE, TRUE),
          AccountMeta(owner, TRUE, TRUE),
          AccountMeta(TREASURY_PDA, FALSE, TRUE),
          AccountMeta(SystemProgramId, FALSE, FALSE)>>,
        SAID_PROGRAM_ID, GET_VERIFIED_DISCRIMINATOR)

\* ------------------------------------------------------------ the codec

AgentIdentity(pubkey, owner, metadataUri, registeredAt, isVerified, verifiedAt) ==
    [pubkey |-> pubkey, owner |-> owner, metadataUri |-> metadataUri,
     registeredAt |-> registeredAt, isVerified |-> isVerified,
     verifiedAt |-> verifiedAt]

\* The result of a parse: what it returned or threw, and the buffer indices
\* it accessed.
Parsed(ret, reads) == [ret |-> ret, reads |-> reads]

\* parseAgentData with the length check written as "at least".
parseAgentData_AtLeast(pubkey, data) ==
    IF Len(data) < AGENT_ACCOUNT_SIZE
    THEN Parsed(Throw(<<"Invalid account data size">>), {})
    ELSE
    LET ownerReads == SubArrayReads(data, 8, 40)
        owner == PublicKeyToString(PublicKeyFromBytes(SubArray(data, 8, 40)))
        uriLength == ReadUInt32LE(data, 40)
        lenReads == ownerReads \cup (40..43)
    IN  IF uriLength > 200 \/ 44 + uriLength > Len(data)
        THEN Parsed(Throw(<<"Malformed metadata URI length">>), lenReads)
        ELSE
        LET metadataUri == Utf8ToString(SubArray(data, 44, 44 + uriLength))
            uriReads == lenReads \cup SubArrayReads(data, 44, 44 + uriLength)
            offset == 44 + uriLength
        IN  IF offset + 17 > Len(data)
            THEN Parsed(Throw(<<"Truncated account data">>), uriReads)
            ELSE Parsed(AgentIdentity(pubkey, owner, metadataUri,
                            ReadBigInt64LE(data, offset),
                            data[offset + 9] = 1,
                            ReadBigInt64LE(data, offset + 9)),
                        uriReads \cup (offset..(offset + 16)))

\* parseAgentData without the uriLength and suffix checks: the readers throw
\* a RangeError past the end.
parseAgentData_NoBounds(pubkey, data) ==
    IF Len(data) # AGENT_ACCOUNT_SIZE
    THEN Parsed(Throw(<<"Invalid account data size">>), {})
    ELSE
    LET ownerReads == SubArrayReads(data, 8, 40)
        owner == PublicKeyToString(PublicKeyFromBytes(SubArray(data, 8, 40)))
        uriLength == ReadUInt32LE(data, 40)
        lenReads == ownerReads \cup (40..43)
        metadataUri == Utf8ToString(SubArray(data, 44, 44 + uriLength))
        uriReads == lenReads \cup SubArrayReads(data, 44, 44 + uriLength)
        offset == 44 + uriLength
    IN  IF offset + 8 > Len(data)
        THEN Parsed(Throw(<<"ERR_OUT_OF_RANGE">>), uriReads)
        ELSE IF offset + 17 > Len(data)
        THEN Parsed(Throw(<<"ERR_OUT_OF_RANGE">>),
                    uriReads \cup (offset..(offset + 8)))
        ELSE Parsed(AgentIdentity(pubkey, owner, metadataUri,
                        ReadBigInt64LE(data, offset),
                        data[offset + 9] = 1,
                        ReadBigInt64LE(data, offset + 9)),
                    uriReads \cup (offset..(offset + 16)))

\* parseAgentData checking only that the URI fits the buffer.
parseAgentData_FitOnly(pubkey, data) ==
    IF Len(data) # AGENT_ACCOUNT_SIZE
    THEN Parsed(Throw(<<"Invalid account data size">>), {})
    ELSE
    LET ownerReads == SubArrayReads(data, 8, 40)
        owner == PublicKeyToString(PublicKeyFromBytes(SubArray(data, 8, 40)))
        uriLength == ReadUInt32LE(data, 40)
        lenReads == ownerReads \cup (40..43)
    IN  IF 44 + uriLength > Len(data)
        THEN Parsed(Throw(<<"Malformed metadata URI length">>), lenReads)
        ELSE
        LET metadataUri == Utf8ToString(SubArray(data, 44, 44 + uriLength))
            uriReads == lenReads \cup SubArrayReads(data, 44, 44 + uriLength)
            offset == 44 + uriLength
        IN  IF offset + 17 > Len(data)
            THEN Parsed(Throw(<<"Truncated account data">>), uriReads)
            ELSE Parsed(AgentIdentity(pubkey, owner, metadataUri,
                            ReadBigInt64LE(data, offset),
                            data[offset + 9] = 1,
                            ReadBigInt64LE(data, offset + 9)),
                        uriReads \cup (offset..(offset + 16)))

\* parseAgentData rejecting a uriLength of 200 as well.
parseAgentData_Below200(pubkey, data) ==
    IF Len(data) # AGENT_ACCOUNT_SIZE
    THEN Parsed(Throw(<<"Invalid account data size">>), {})
    ELSE
    LET ownerReads == SubArrayReads(data, 8, 40)
        owner == PublicKeyToString(PublicKeyFromBytes(SubArray(data, 8, 40)))
        uriLength == ReadUInt32LE(data, 40)
        lenReads == ownerReads \cup (40..43)
    IN  IF uriLength >= 200 \/ 44 + uriLength > Len(data)
        THEN Parsed(Throw(<<"Malformed metadata URI length">>), lenReads)
        ELSE
        LET metadataUri == Utf8ToString(SubArray(data, 44, 44 + uriLength))
            uriReads == lenReads \cup SubArrayReads(data, 44, 44 + uriLength)
            offset == 44 + uriLength
        IN  IF offset + 17 > Len(data)
            THEN Parsed(Throw(<<"Truncated account data">>), uriReads)
            ELSE Parsed(AgentIdentity(pubkey, owner, metadataUri,
                            ReadBigInt64LE(data, offset),
                            data[offset + 9] = 1,
                            ReadBigInt64LE(data, offset + 9)),
                        uriReads \cup (offset..(offset + 16)))

\* parseAgentData taking every non-zero byte for true.
parseAgentData_Truthy(pubkey, data) ==
    IF Len(data) # AGENT_ACCOUNT_SIZE
    THEN Parsed(Throw(<<"Invalid account data size">>), {})
    ELSE
    LET ownerReads == SubArrayReads(data, 8, 40)
        owner == PublicKeyToString(PublicKeyFromBytes(SubArray(data, 8, 40)))
        uriLength == ReadUInt32LE(data, 40)
        lenReads == ownerReads \cup (40..43)
    IN  IF uriLength > 200 \/ 44 + uriLength > Len(data)
        THEN Parsed(Throw(<<"Malformed metadata URI length">>), lenReads)
        ELSE
        LET metadataUri == Utf8ToString(SubArray(data, 44, 44 + uriLength))
            uriReads == lenReads \cup SubArrayReads(data, 44, 44 + uriLength)
            offset == 44 + uriLength
        IN  IF offset + 17 > Len(data)
            THEN Parsed(Throw(<<"Truncated account data">>), uriReads)
            ELSE Parsed(AgentIdentity(pubkey, owner, metadataUri,
                            ReadBigInt64LE(data, offset),
                            data[offset + 9] # 0,
                            ReadBigInt64LE(data, offset + 9)),
                        uriReads \cup (offset..(offset + 16)))

\* SAID.parseAgentData(pubkey, data), src/index.ts.
parseAgentData(pubkey, data) ==
    IF Len(data) # AGENT_ACCOUNT_SIZE
    THEN Parsed(Throw(<<"Invalid account data size">>), {})
    ELSE
    LET ownerReads == SubArrayReads(data, 8, 40)
        owner == PublicKeyToString(PublicKeyFromBytes(SubArray(data, 8, 40)))
        uriLength == ReadUInt32LE(data, 40)
        lenReads == ownerReads \cup (40..43)
    IN  IF uriLength > 200 \/ 44 + uriLength > Len(data)
        THEN Parsed(Throw(<<"Malformed metadata URI length">>), lenReads)
        ELSE
        LET metadataUri == Utf8ToString(SubArray(data, 44, 44 + uriLength))
            uriReads == lenReads \cup SubArrayReads(data, 44, 44 + uriLength)
            offset == 44 + uriLength
        IN  IF offset + 17 > Len(data)
            THEN Parsed(Throw(<<"Truncated account data">>), uriReads)
            ELSE Parsed(AgentIdentity(pubkey, owner, metadataUri,
                            ReadBigInt64LE(data, offset),
                            data[offset + 9] = 1,
                            ReadBigInt64LE(data, offset + 9)),
                        uriReads \cup (offset..(offset + 16)))

\* SAID.parseAgentData(pubkey, data), dist/index.mjs: no check of its own; the
\* Buffer readers throw a RangeError past the end, data[i] past the end is
\* undefined.
parseAgentDataDist(pubkey, data) ==
    LET ownerReads == SubArrayReads(data, 8, 40)
        owner == PublicKeyToString(PublicKeyFromBytes(SubArray(data, 8, 40)))
    IN  IF 44 > Len(data)
        THEN Parsed(Throw(<<"ERR_OUT_OF_RANGE">>), ownerReads)
        ELSE
        LET uriLength == ReadUInt32LE(data, 40)
            metadataUri == Utf8ToString(SubArray(data, 44, 44 + uriLength))
            uriReads == ownerReads \cup (40..43)
                            \cup SubArrayReads(data, 44, 44 + uriLength)
            offset == 44 + uriLength
        IN  IF offset + 8 > Len(data)
            THEN Parsed(Throw(<<"ERR_OUT_OF_RANGE">>), uriReads)
            ELSE IF offset + 17 > Len(data)
            THEN Parsed(Throw(<<"ERR_OUT_OF_RANGE">>),
                        uriReads \cup (offset..(offset + 8)))
            ELSE Parsed(AgentIdentity(pubkey, owner, metadataUri,
                            ReadBigInt64LE(data, offset),
                            data[offset + 9] = 1,
                            ReadBigInt64LE(data, offset + 9)),
                        uriReads \cup (offset..(offset + 16)))

\* ------------------------------------------------- the record layout (§3)

\* An int64 in little-endian two's complement, for a signed 32-bit n.
WriteBigInt64LE(n) ==
    LET m == IF n >= 0 THEN n ELSE n + 2147483647 + 1
        top == (m \div 16777216) + (IF n >= 0 THEN 0 ELSE 128)
        ext == IF n >= 0 THEN 0 ELSE 255
    IN  <<m % 256, (m \div 256) % 256, (m \div 65536) % 256, top,
          ext, ext, ext, ext>>

Resize(b, n) == [i \in 1..n |-> IF i <= Len(b) THEN b[i] ELSE 0]

\* b with the bytes written at offset off (as far as b reaches).
WithBytes(b, off, bytes) ==
    [i \in 1..Len(b) |->
        IF i > off /\ i <= off + Len(bytes) THEN bytes[i - off] ELSE b[i]]

\* The record rec laid out per the table of §3 under discriminator disc and
\* zero-padded to the account size.
encodeRecord(disc, rec) ==
    LET uriBytes == Utf8Bytes(rec.metadataUri)
    IN  Resize(disc \o Base58Decode(rec.owner).bytes
                   \o WriteUInt32LE(Len(uriBytes)) \o uriBytes
                   \o WriteBigInt64LE(rec.registeredAt)
                   \o <<IF rec.isVerified THEN 1 ELSE 0>>
                   \o WriteBigInt64LE(rec.verifiedAt),
               AGENT_ACCOUNT_SIZE)

\* ------------------------------------------------------------ test inputs

ZeroKey == [key |-> Rep(0, 32)]

Key(n) ==
    [key |-> Rep(0, 32 - KeyDigits)
                 \o [i \in 1..KeyDigits |-> (n * 37 + i * 11) % 256]]

TestKeys == {ZeroKey} \cup {Key(n) : n \in 1..NumKeys}

Hello == <<104, 101, 108, 108, 111>>

\* URIs of 0, 5, 8, 200, 200, 201 and 202 UTF-8 bytes; the fixed suffix fits
\* the account after at most 202.
TestUris ==
    {<<>>, Hello, <<99, 97, 102, 233, 8364>>, Rep(97, 200), Rep(233, 100),
     Rep(97, 201), Rep(233, 101)}

TestDiscs == {Rep(0, 8), <<24, 1, 255, 128, 7, 200, 13, 99>>}

TestPubkey == PublicKeyToString(Key(1))

TestRecords ==
    {AgentIdentity(TestPubkey, PublicKeyToString(k), u, r, v, a) :
        k \in TestKeys, u \in TestUris, r \in {0, 1700000000, -1},
        v \in BOOLEAN, a \in {0, 1700000500}}

\* The scenario buffer of §8.
ScenarioBuffer ==
    encodeRecord(Rep(0, 8),
        AgentIdentity(TestPubkey, PublicKeyToString(ZeroKey), Hello,
                      1700000000, TRUE, 1700000500))

TestLengths ==
    {0, 8, 40, 43, 44, 61, 100, 262, 263}
        \cup (264..(AGENT_ACCOUNT_SIZE + MaxExtra))

TestUriLengths ==
    {0, 5, 185, 200, 201, 202, 203, 211, 219, 220, 256, 65536, 2147483586}

\* Buffers of every test length declaring every test uriLength, and account-
\* sized buffers with every value of the isVerified byte.
TestBuffers ==
    {WithBytes(Resize(ScenarioBuffer, n), 40, WriteUInt32LE(u)) :
        n \in TestLengths, u \in TestUriLengths}
    \cup {WithBytes(ScenarioBuffer, 44 + 5 + 8, <<v>>) : v \in 0..255}
    \cup {WithBytes(encodeRecord(Rep(0, 8),
                       AgentIdentity(TestPubkey, PublicKeyToString(Key(1)),
                                     Rep(97, 200), 1, TRUE, 2)),
                    44 + 200 + 8, <<v>>) : v \in {0, 1, 2, 254, 255}}

\* ------------------------------------------------------ codec operations

NoRecord == [none |-> TRUE]

Idle == [op |-> "idle"]

\* parseAgentData (src/index.ts) applied to a buffer.
ParseStrict ==
    \E data \in TestBuffers :
        /\ call = Idle
        /\ call' = [op |-> "parse", variant |-> "src", data |-> data,
                    rec |-> NoRecord,
                    out |-> parseAgentData(TestPubkey, data)]
        /\ UNCHANGED chain

\* parseAgentData (dist build) applied to a buffer.
ParseDist ==
    \E data \in TestBuffers :
        /\ call = Idle
        /\ call' = [op |-> "parse", variant |-> "dist", data |-> data,
                    rec |-> NoRecord,
                    out |-> parseAgentDataDist(TestPubkey, data)]
        /\ UNCHANGED chain

\* parseAgentData (src/index.ts) applied to the layout of a record.
ParseEncoded ==
    \E rec \in TestRecords, disc \in TestDiscs :
        /\ call = Idle
        /\ call' = [op |-> "parse", variant |-> "src",
                    data |-> encodeRecord(disc, rec), rec |-> rec,
                    out |-> parseAgentData(rec.pubkey,
                                           encodeRecord(disc, rec))]
        /\ UNCHANGED chain

NoAccount == [none |-> TRUE]

InitCodec == chain = <<>> /\ call = Idle

NextCodec == ParseStrict \/ ParseDist \/ ParseEncoded

SpecCodec == InitCodec /\ [][NextCodec]_vars

\* ------------------------------------------------------- codec properties

IsParse(variant) == call.op = "parse" /\ call.variant = variant

\* The uriLength a buffer of at least 44 bytes declares.
DeclaredUriLength == ReadUInt32LE(call.data, 40)

\* The errors parseAgentData itself raises on a structurally bad record.
DecodeErrors ==
    {<<"Invalid account data size">>, <<"Malformed metadata URI length">>,
     <<"Truncated account data">>}

InBounds(reads, data) == \A i \in reads : i >= 0 /\ i < Len(data)

\* C1: a buffer whose length is not 263 bytes makes parseAgentData fail with
\* the invalid-length error, whatever its contents; no record is returned.
C1_InvalidLength ==
    (IsParse("src") /\ Len(call.data) # AGENT_ACCOUNT_SIZE)
        => /\ IsThrow(call.out.ret)
           /\ call.out.ret.throw = <<"Invalid account data size">>

\* A 264-byte buffer that holds a well-formed record in its first 263 bytes
\* was rejected.
C1_Witness ==
    /\ IsParse("src")
    /\ Len(call.data) = AGENT_ACCOUNT_SIZE + 1
    /\ DeclaredUriLength = 5
    /\ IsThrow(call.out.ret)

FieldsRoundTrip ==
    /\ ~IsThrow(call.out.ret)
    /\ call.out.ret.owner = call.rec.owner
    /\ call.out.ret.metadataUri = call.rec.metadataUri
    /\ call.out.ret.registeredAt = call.rec.registeredAt
    /\ call.out.ret.isVerified = call.rec.isVerified
    /\ call.out.ret.verifiedAt = call.rec.verifiedAt

IsEncoded == call.op = "parse" /\ "owner" \in DOMAIN call.rec

C4_IsVerifiedByte ==
    IsParse("src") =>
        /\ ~IsThrow(call.out.ret)
            => call.out.ret.isVerified
                   = (call.data[44 + DeclaredUriLength + 8 + 1] = 1)
        /\ (Len(call.data) = AGENT_ACCOUNT_SIZE /\ DeclaredUriLength <= 200)
            => ~IsThrow(call.out.ret)

\* A buffer whose isVerified byte is 2 decoded, with isVerified false.
C4_Witness ==
    /\ IsParse("src")
    /\ ~IsThrow(call.out.ret)
    /\ call.data[44 + DeclaredUriLength + 8 + 1] = 2
    /\ call.out.ret.isVerified = FALSE

\* C29: the decode of a 263-byte buffer by src/index.ts depends on the
\* declared uriLength alone: it returns a record when uriLength <= 200 and
\* fails with the malformed-URI error otherwise, 201 and 202 included, and
\* never with the truncated-record error.
C29_AccountSizedOutcome ==
    (IsParse("src") /\ Len(call.data) = AGENT_ACCOUNT_SIZE) =>
        /\ IF DeclaredUriLength <= 200
           THEN ~IsThrow(call.out.ret)
           ELSE call.out.ret = Throw(<<"Malformed metadata URI length">>)
        /\ call.out.ret # Throw(<<"Truncated account data">>)

\* An account-sized buffer declaring a URI of 202 bytes, which with the 17
\* bytes after it fills the buffer exactly, was rejected as malformed.
C29_Witness ==
    /\ IsParse("src")
    /\ Len(call.data) = AGENT_ACCOUNT_SIZE
    /\ DeclaredUriLength = 202
    /\ call.out.ret = Throw(<<"Malformed metadata URI length">>)

\* --------------------------------------------- deriver and builders: runs

\* 'invalid-wallet-address', '222' and the empty string: none is the base58
\* form of 32 bytes.
InvalidWallets ==
    {Str(<<105, 110, 118, 97, 108, 105, 100, 45, 119, 97, 108, 108, 101, 116,
           45, 97, 100, 100, 114, 101, 115, 115>>),
     Str(<<50, 50, 50>>), Str(<<>>)}

TestWallets ==
    TestKeys \cup {Str(PublicKeyToString(k)) : k \in TestKeys}

\* SAID.deriveAgentPDA(owner), after at most one earlier call of it.
Derive ==
    \E owner \in TestWallets \cup InvalidWallets :
        /\ call = Idle \/ (call.op = "derive" /\ call.prev = Idle)
        /\ call' = [op |-> "derive", impl |-> "SAID", owner |-> owner,
                    out |-> deriveAgentPDA(owner), prev |-> call]
        /\ UNCHANGED chain

\* deriveAgentPDA(owner) of the multi-wallet module, after at most one earlier
\* derivation.
DeriveMultiWallet ==
    \E owner \in TestKeys :
        /\ call = Idle \/ (call.op = "derive" /\ call.prev = Idle)
        /\ call' = [op |-> "derive", impl |-> "multi-wallet",
                    owner |-> owner,
                    out |-> deriveAgentPDA_MultiWallet(owner), prev |-> call]
        /\ UNCHANGED chain

\* buildRegisterInstruction, as registerAgent and createAgent call it.
BuildRegister ==
    \E owner \in TestKeys, metadataUri \in TestUris :
        /\ call = Idle
        /\ call' = [op |-> "register", owner |-> owner,
                    metadataUri |-> metadataUri,
                    out |-> buildRegisterInstruction(
                                deriveAgentPDA(owner).address, owner,
                                metadataUri)]
        /\ UNCHANGED chain

\* buildVerifyInstruction (src/index.ts), as verifyAgent calls it.
BuildVerify ==
    \E owner \in TestKeys :
        /\ call = Idle
        /\ call' = [op |-> "verify", variant |-> "src", owner |-> owner,
                    out |-> buildVerifyInstruction(
                                deriveAgentPDA(owner).address, owner)]
        /\ UNCHANGED chain

\* buildVerifyInstruction (dist build), as verifyAgent calls it.
BuildVerifyDist ==
    \E owner \in TestKeys :
        /\ call = Idle
        /\ call' = [op |-> "verify", variant |-> "dist", owner |-> owner,
                    out |-> buildVerifyInstructionDist(
                                deriveAgentPDA(owner).address, owner)]
        /\ UNCHANGED chain

InitBuild == chain = <<>> /\ call = Idle

NextBuild ==
    Derive \/ DeriveMultiWallet \/ BuildRegister \/ BuildVerify
        \/ BuildVerifyDist

SpecBuild == InitBuild /\ [][NextBuild]_vars

\* ------------------------------------- deriver and builders: properties

\* The key an owner argument denotes: itself, or the key whose base58 form the
\* string is.
Denotes(owner, k) == owner = k \/ owner = Str(PublicKeyToString(k))

\* The identity address of a key: the program address of the seeds 'agent'
\* and the key's 32 bytes under the SAID program.
IdentityAddress(k) ==
    [pda |-> <<"agent", k.key>>, program |-> SAID_PROGRAM_ID]

\* C5: two calls of deriveAgentPDA with the same owner, each given as a key
\* or as the key's string form, return the identical (address, bump) pair,
\* the pair of the owner's identity address, and leave the state as it was.
C5_DeriveDeterministic ==
    (call.op = "derive" /\ call.prev # Idle) =>
        /\ chain = <<>>
        /\ \A k \in TestKeys :
               (Denotes(call.owner, k) /\ Denotes(call.prev.owner, k))
                   => /\ call.out = call.prev.out
                      /\ call.out.address = IdentityAddress(k)

\* The address derived from a key's string form, after the one derived from
\* the key itself.
C5_Witness ==
    /\ call.op = "derive"
    /\ call.prev # Idle
    /\ call.prev.owner = Key(1)
    /\ call.owner = Str(PublicKeyToString(Key(1)))
    /\ call.out.address = IdentityAddress(Key(1))
    /\ call.out = call.prev.out

\* C6: buildRegisterInstruction's data is the 8-byte register discriminator,
\* then the 4-byte little-endian count of the URI's UTF-8 bytes, then those
\* bytes; its accounts are, in order, the identity address (writable, not
\* signer), the owner (writable, signer) and the system program (read-only,
\* not signer).
C6_RegisterInstruction ==
    call.op = "register" =>
        LET data == call.out.data
            n == Len(Utf8Bytes(call.metadataUri))
        IN  /\ Len(data) = 8 + 4 + n
            /\ SubArray(data, 0, 8) = REGISTER_AGENT_DISCRIMINATOR
            /\ ReadUInt32LE(data, 8) = n
            /\ SubArray(data, 12, 12 + n) = Utf8Bytes(call.metadataUri)
            /\ Utf8ToString(SubArray(data, 12, Len(data))) = call.metadataUri
            /\ call.out.keys =
                   <<[pubkey |-> IdentityAddress(call.owner),
                      isSigner |-> FALSE, isWritable |-> TRUE],
                     [pubkey |-> call.owner,
                      isSigner |-> TRUE, isWritable |-> TRUE],
                     [pubkey |-> SystemProgramId,
                      isSigner |-> FALSE, isWritable |-> FALSE]>>

\* A register instruction for a URI whose UTF-8 form (8 bytes) is longer than
\* its 5 characters.
C6_Witness ==
    /\ call.op = "register"
    /\ call.metadataUri = <<99, 97, 102, 233, 8364>>
    /\ SubArray(call.out.data, 8, 12) = <<8, 0, 0, 0>>
    /\ Len(call.out.data) = 20
    /\ Len(call.out.keys) = 3

\* C7: buildVerifyInstruction's data is the 8-byte verify discriminator only;
\* its accounts are, in order, the identity address (writable), the owner
\* (writable, signer), the treasury address (writable) and the system program
\* (read-only).
C7_VerifyInstruction ==
    call.op = "verify" =>
        /\ call.out.data = GET_VERIFIED_DISCRIMINATOR
        /\ Len(call.out.keys) = 4
        /\ call.out.keys[1].pubkey = IdentityAddress(call.owner)
        /\ call.out.keys[1].isWritable
        /\ call.out.keys[2].pubkey = call.owner
        /\ call.out.keys[2].isWritable /\ call.out.keys[2].isSigner
        /\ call.out.keys[3].pubkey = TREASURY_PDA
        /\ call.out.keys[3].isWritable
        /\ call.out.keys[4].pubkey = SystemProgramId
        /\ ~call.out.keys[4].isWritable

\* ------------------------------------------------------ identity client

Null == [null |-> TRUE]

\* The network of one call: it answers, or the request fails with an error.
RpcOk == [rpc |-> "ok"]

RpcErrors == {[rpc |-> "error", message |-> <<"fetch failed">>]}

\* Connection.getAccountInfo(address): the account the chain holds there, null
\* (NoAccount) where it holds none; throws when the request fails.
getAccountInfo(rpc, address) ==
    IF rpc # RpcOk THEN Throw(rpc.message)
    ELSE IF address \in DOMAIN chain THEN chain[address]
    ELSE NoAccount

\* String.includes on an error message, for a needle that is one of its
\* fragments or in none of them.
Includes(message, needle) ==
    \E i \in 1..Len(message) : message[i] = needle

\* The text a template literal gives a wallet argument.
WalletText(wallet) ==
    IF IsString(wallet) THEN wallet.str ELSE PublicKeyToString(wallet)

\* lookup passing the wallet, not the identity address, as the record's pubkey.
lookup_WalletPubkey(wallet, rpc) ==
    LET derived == deriveAgentPDA(wallet)
        accountInfo == getAccountInfo(rpc, derived.address)
        body ==
            IF IsThrow(derived) THEN derived
            ELSE IF IsThrow(accountInfo) THEN accountInfo
            ELSE IF accountInfo = NoAccount
                    \/ Len(accountInfo.data) # AGENT_ACCOUNT_SIZE
            THEN Null
            ELSE parseAgentData(WalletText(wallet), accountInfo.data).ret
    IN  IF ~IsThrow(body) THEN body
        ELSE IF Includes(body.throw, "Invalid public key")
        THEN Throw(<<"Invalid wallet address: ", WalletText(wallet)>>)
        ELSE Throw(<<"Failed to lookup agent: ">> \o body.throw)

\* SAID.lookup(wallet), src/index.ts.
lookup(wallet, rpc) ==
    LET derived == deriveAgentPDA(wallet)
        accountInfo == getAccountInfo(rpc, derived.address)
        body ==
            IF IsThrow(derived) THEN derived
            ELSE IF IsThrow(accountInfo) THEN accountInfo
            ELSE IF accountInfo = NoAccount
                    \/ Len(accountInfo.data) # AGENT_ACCOUNT_SIZE
            THEN Null
            ELSE parseAgentData(PublicKeyToString(derived.address),
                                accountInfo.data).ret
    IN  IF ~IsThrow(body) THEN body
        ELSE IF Includes(body.throw, "Invalid public key")
        THEN Throw(<<"Invalid wallet address: ", WalletText(wallet)>>)
        ELSE Throw(<<"Failed to lookup agent: ">> \o body.throw)

\* SAID.lookup(wallet), dist/index.mjs: every error becomes null.
lookupDist(wallet, rpc) ==
    LET derived == deriveAgentPDA(wallet)
        accountInfo == getAccountInfo(rpc, derived.address)
        body ==
            IF IsThrow(derived) THEN derived
            ELSE IF IsThrow(accountInfo) THEN accountInfo
            ELSE IF accountInfo = NoAccount
                    \/ Len(accountInfo.data) # AGENT_ACCOUNT_SIZE
            THEN Null
            ELSE parseAgentDataDist(PublicKeyToString(derived.address),
                                    accountInfo.data).ret
    IN  IF IsThrow(body) THEN Null ELSE body

\* SAID.lookupByPDA(pda), src/index.ts: every error becomes null.
lookupByPDA(pda, rpc) ==
    LET pdaKey == IF IsString(pda) THEN PublicKeyFromString(pda.str) ELSE pda
        accountInfo == getAccountInfo(rpc, pdaKey)
        body ==
            IF IsThrow(pdaKey) THEN pdaKey
            ELSE IF IsThrow(accountInfo) THEN accountInfo
            ELSE IF accountInfo = NoAccount
                    \/ Len(accountInfo.data) # AGENT_ACCOUNT_SIZE
            THEN Null
            ELSE parseAgentData(PublicKeyToString(pdaKey),
                                accountInfo.data).ret
    IN  IF IsThrow(body) THEN Null ELSE body

\* What a call that did not throw returned, where that is not a record.
Return(value) == [returns |-> value]

\* The code after an `await`, applied to what the awaited call settled to:
\* Awaited({then(value) : value \in {call}}) runs the call once and hands
\* its value to the code that follows.
Awaited(continued) == CHOOSE out \in continued : TRUE

\* isVerified returning whether the wallet is registered.
isVerified_Registered(wallet, rpc) ==
    LET then(agent) ==
            IF IsThrow(agent) THEN agent ELSE Return(agent # Null)
    IN  Awaited({then(value) : value \in {lookup(wallet, rpc)}})

\* SAID.isVerified(wallet): agent?.isVerified ?? false.
isVerified(wallet, rpc) ==
    LET then(agent) ==
            IF IsThrow(agent) THEN agent
            ELSE IF agent = Null THEN Return(FALSE)
            ELSE Return(agent.isVerified)
    IN  Awaited({then(value) : value \in {lookup(wallet, rpc)}})

\* String.includes, String.replace (first occurrence) and String.startsWith on
\* code points.
StrIndexOf(s, t) ==
    LET hits == {i \in 1..(Len(s) - Len(t) + 1) :
                    SubSeq(s, i, i + Len(t) - 1) = t}
    IN  IF hits = {} THEN 0 ELSE CHOOSE i \in hits : \A j \in hits : i <= j

StrIncludes(s, t) == StrIndexOf(s, t) # 0

StrReplace(s, t, r) ==
    LET i == StrIndexOf(s, t)
    IN  IF i = 0 THEN s
        ELSE SubSeq(s, 1, i - 1) \o r \o SubSeq(s, i + Len(t), Len(s))

StartsWith(s, t) == Len(s) >= Len(t) /\ SubSeq(s, 1, Len(t)) = t

\* 'saidprotocol.com', 'www.', 'www.saidprotocol.com' and 'https://'.
SaidHost ==
    <<115, 97, 105, 100, 112, 114, 111, 116, 111, 99, 111, 108, 46, 99, 111,
      109>>

WwwPrefix == <<119, 119, 119, 46>>

WwwSaidHost == WwwPrefix \o SaidHost

HttpsScheme == <<104, 116, 116, 112, 115, 58, 47, 47>>

\* The URI getCard and listAgents fetch for a metadata URI.
CardUrl(metadataUri) ==
    IF StrIncludes(metadataUri, SaidHost)
           /\ ~StrIncludes(metadataUri, WwwPrefix)
    THEN StrReplace(metadataUri, SaidHost, WwwSaidHost)
    ELSE metadataUri

\* The web of one request: the request fails, or a response comes with a
\* status (ok: 2xx) and a body that parses as JSON or does not.
FetchError == [fetch |-> "error", message |-> <<"fetch failed">>]

ParseError == [parse |-> "error", message |-> <<"Unexpected token">>]

Response(ok, json) == [fetch |-> "response", ok |-> ok, json |-> json]

\* The AgentCard served at a URL.
CardAt(url) == [name |-> "agent", servedAt |-> url]

HttpOutcomes == {"unreachable", "status 404", "not JSON", "card"}

\* fetch(uri) when the web answers with outcome http: a TypeError for what is
\* no absolute URL.
Fetch(http, uri) ==
    IF ~StartsWith(uri, HttpsScheme) \/ http = "unreachable" THEN FetchError
    ELSE IF http = "status 404" THEN Response(FALSE, [error |-> "Not Found"])
    ELSE IF http = "not JSON" THEN Response(TRUE, ParseError)
    ELSE Response(TRUE, CardAt(uri))

\* getCard returning response.json() without awaiting it inside the try.
getCard_NoAwait(wallet, rpc, http) ==
    LET fetched(response) ==
            IF response = FetchError THEN Null
            ELSE IF ~response.ok THEN Null
            ELSE IF response.json = ParseError THEN Throw(ParseError.message)
            ELSE response.json
        then(agent) ==
            IF IsThrow(agent) THEN agent
            ELSE IF agent = Null \/ agent.metadataUri = <<>> THEN Null
            ELSE Awaited({fetched(value) :
                    value \in {Fetch(http, CardUrl(agent.metadataUri))}})
    IN  Awaited({then(value) : value \in {lookup(wallet, rpc)}})

\* SAID.getCard(wallet): lookup's errors propagate, the fetch's do not.
getCard(wallet, rpc, http) ==
    LET fetched(response) ==
            IF response = FetchError THEN Null
            ELSE IF ~response.ok THEN Null
            ELSE IF response.json = ParseError THEN Null
            ELSE response.json
        then(agent) ==
            IF IsThrow(agent) THEN agent
            ELSE IF agent = Null \/ agent.metadataUri = <<>> THEN Null
            ELSE Awaited({fetched(value) :
                    value \in {Fetch(http, CardUrl(agent.metadataUri))}})
    IN  Awaited({then(value) : value \in {lookup(wallet, rpc)}})

\* agent.card = card.
WithCard(agent, card) ==
    [f \in DOMAIN agent \cup {"card"} |->
        IF f = "card" THEN card ELSE agent[f]]

\* SAID.getAgent(wallet): lookup, then getCard, which looks the wallet up
\* again with a request of its own (cardRpc).
getAgent(wallet, rpc, cardRpc, http) ==
    LET then(agent) ==
            LET carded(card) ==
                    IF IsThrow(card) THEN card
                    ELSE IF card # Null THEN WithCard(agent, card)
                    ELSE agent
            IN  IF IsThrow(agent) THEN agent
                ELSE IF agent = Null THEN Null
                ELSE Awaited({carded(value) :
                        value \in {getCard(wallet, cardRpc, http)}})
    IN  Awaited({then(value) : value \in {lookup(wallet, rpc)}})

\* Connection.getProgramAccounts(SAID_PROGRAM_ID, dataSize filter): the
\* program's accounts of AGENT_ACCOUNT_SIZE bytes, in the order the node
\* lists them; throws when the request fails.
ProgramAccounts ==
    {a \in DOMAIN chain :
        chain[a] # NoAccount /\ Len(chain[a].data) = AGENT_ACCOUNT_SIZE}

ScanOrders ==
    {order \in [1..Cardinality(ProgramAccounts) -> ProgramAccounts] :
        \A i, j \in DOMAIN order : order[i] = order[j] => i = j}

getProgramAccounts(rpc, order) ==
    IF rpc # RpcOk THEN Throw(rpc.message)
    ELSE Return([i \in DOMAIN order |->
                    [pubkey |-> order[i], account |-> chain[order[i]]]])

\* listAgents leaving out the accounts that do not decode.
listAgentsScan_SkipMalformed(rpc, order) ==
    LET accounts == getProgramAccounts(rpc, order)
        agents ==
            [i \in DOMAIN accounts.returns |->
                parseAgentData(
                    PublicKeyToString(accounts.returns[i].pubkey),
                    accounts.returns[i].account.data).ret]
        Decoded(agent) == ~IsThrow(agent)
    IN  IF IsThrow(accounts) THEN Return(<<>>)
        ELSE [agents |-> SelectSeq(agents, Decoded)]

\* listAgents letting a failed scan reach the caller.
listAgentsScan_Rethrow(rpc, order) ==
    LET accounts == getProgramAccounts(rpc, order)
        agents ==
            [i \in DOMAIN accounts.returns |->
                parseAgentData(
                    PublicKeyToString(accounts.returns[i].pubkey),
                    accounts.returns[i].account.data).ret]
    IN  IF IsThrow(accounts) THEN accounts
        ELSE IF \E i \in DOMAIN agents : IsThrow(agents[i])
        THEN Return(<<>>)
        ELSE [agents |-> agents]

\* SAID.listAgents up to its card fetches: the scan and the decoding of every
\* account; an error in either is caught and the empty list returned.
listAgentsScan(rpc, order) ==
    LET accounts == getProgramAccounts(rpc, order)
        agents ==
            [i \in DOMAIN accounts.returns |->
                parseAgentData(
                    PublicKeyToString(accounts.returns[i].pubkey),
                    accounts.returns[i].account.data).ret]
    IN  IF IsThrow(accounts) THEN Return(<<>>)
        ELSE IF \E i \in DOMAIN agents : IsThrow(agents[i])
        THEN Return(<<>>)
        ELSE [agents |-> agents]

\* The card callback of listAgents without the res.ok test.
withFetchedCard_NoOkTest(agent, response) ==
    IF response = FetchError THEN agent
    ELSE IF response.json = ParseError THEN agent
    ELSE WithCard(agent, response.json)

\* The card callback of listAgents on one agent, once its fetch has settled:
\* the card is set from a 2xx response that parses, every error is skipped.
withFetchedCard(agent, response) ==
    IF response = FetchError THEN agent
    ELSE IF ~response.ok THEN agent
    ELSE IF response.json = ParseError THEN agent
    ELSE WithCard(agent, response.json)

\* The card callback without its try: a failed fetch or an unparsable body
\* rejects the callback's promise.
cardCallback_NoTry(agent, http) ==
    LET fetched(response) ==
            IF response = FetchError THEN Throw(FetchError.message)
            ELSE IF response.ok /\ response.json = ParseError
            THEN Throw(ParseError.message)
            ELSE Return(withFetchedCard(agent, response))
    IN  Awaited({fetched(value) :
            value \in {Fetch(http, CardUrl(agent.metadataUri))}})

\* The async card callback listAgents maps over its agents, the fetch
\* answering http: whatever the fetch does, the try/catch lets the callback's
\* promise be fulfilled.
cardCallback(agent, http) ==
    LET fetched(response) == Return(withFetchedCard(agent, response))
    IN  Awaited({fetched(value) :
            value \in {Fetch(http, CardUrl(agent.metadataUri))}})

\* SAID.listAgents as one call: the scan, then the card of every agent,
\* the i-th fetch answering http[i].
listAgents(includeCards, rpc, order, http) ==
    LET scanned(list) ==
            IF "agents" \notin DOMAIN list THEN list
            ELSE IF ~includeCards THEN Return(list.agents)
            ELSE Return([i \in DOMAIN list.agents |->
                            withFetchedCard(list.agents[i],
                                Fetch(http[i],
                                    CardUrl(list.agents[i].metadataUri)))])
    IN  Awaited({scanned(value) : value \in {listAgentsScan(rpc, order)}})

\* SAID.getStats(): the counts over listAgents().
getStats(rpc, order) ==
    LET counted(agents) ==
            IF IsThrow(agents) THEN agents
            ELSE [total |-> Len(agents.returns),
                  verified |-> Cardinality(
                      {i \in DOMAIN agents.returns :
                          agents.returns[i].isVerified})]
    IN  Awaited({counted(value) :
            value \in {listAgents(FALSE, rpc, order, <<>>)}})

\* --------------------------------------------------------- client: runs

\* The account of a registered owner.
AccountOf(k) ==
    encodeRecord(Rep(0, 8),
        AgentIdentity(TestPubkey, PublicKeyToString(k), Hello, 1700000000,
                      TRUE, 1700000500))

\* 'https://saidprotocol.com/a.json' and 'https://www.saidprotocol.com/a.json'.
SaidUri ==
    <<104, 116, 116, 112, 115, 58, 47, 47, 115, 97, 105, 100, 112, 114, 111,
      116, 111, 99, 111, 108, 46, 99, 111, 109, 47, 97, 46, 106, 115, 111,
      110>>

WwwUri ==
    <<104, 116, 116, 112, 115, 58, 47, 47, 119, 119, 119, 46, 115, 97, 105,
      100, 112, 114, 111, 116, 111, 99, 111, 108, 46, 99, 111, 109, 47, 97,
      46, 106, 115, 111, 110>>

\* 'https://api.saidprotocol.com/a.json' and
\* 'https://saidprotocol.com/www.json'.
ApiUri ==
    <<104, 116, 116, 112, 115, 58, 47, 47, 97, 112, 105, 46, 115, 97, 105,
      100, 112, 114, 111, 116, 111, 99, 111, 108, 46, 99, 111, 109, 47, 97,
      46, 106, 115, 111, 110>>

WwwPathUri ==
    <<104, 116, 116, 112, 115, 58, 47, 47, 115, 97, 105, 100, 112, 114, 111,
      116, 111, 99, 111, 108, 46, 99, 111, 109, 47, 119, 119, 119, 46, 106,
      115, 111, 110>>

\* The account of an owner registered under a metadata URI, verified or not.
AccountWith(k, metadataUri, verified) ==
    encodeRecord(Rep(0, 8),
        AgentIdentity(TestPubkey, PublicKeyToString(k), metadataUri,
                      1700000000, verified,
                      IF verified THEN 1700000500 ELSE 0))

\* Accounts of a registered owner, under each test URI, and accounts the
\* client must not take for one: too short, too long, and account-sized with a uriLength of 201 and of
\* 220.
TestAccounts(k) ==
    {[data |-> AccountOf(k)],
     [data |-> AccountWith(k, SaidUri, FALSE)],
     [data |-> AccountWith(k, WwwUri, TRUE)],
     [data |-> AccountWith(k, ApiUri, TRUE)],
     [data |-> AccountWith(k, WwwPathUri, TRUE)],
     [data |-> AccountWith(k, <<>>, TRUE)],
     [data |-> Resize(AccountOf(k), 100)],
     [data |-> Resize(AccountOf(k), AGENT_ACCOUNT_SIZE + 1)],
     [data |-> WithBytes(AccountOf(k), 40, WriteUInt32LE(201))],
     [data |-> WithBytes(AccountOf(k), 40, WriteUInt32LE(220))]}

EmptyChain == [a \in {IdentityAddress(k) : k \in TestKeys} |-> NoAccount]

\* Every owner registered, the all-zero key unverified under SaidUri and the
\* others verified under WwwUri.
FullChain ==
    [a \in DOMAIN EmptyChain |->
        IF a = IdentityAddress(ZeroKey)
        THEN [data |-> AccountWith(ZeroKey, SaidUri, FALSE)]
        ELSE [data |-> AccountWith(CHOOSE k \in TestKeys :
                                       a = IdentityAddress(k), WwwUri, TRUE)]]

\* FullChain with the account of Key(1) declaring a uriLength of 201.
MixedChain ==
    [FullChain EXCEPT ![IdentityAddress(Key(1))] =
        [data |-> WithBytes(AccountOf(Key(1)), 40, WriteUInt32LE(201))]]

\* Chains holding an account at the identity address of at most one owner, or
\* of every owner.
TestChains ==
    {EmptyChain, FullChain, MixedChain}
        \cup UNION {{[EmptyChain EXCEPT ![IdentityAddress(k)] = acct] :
                         acct \in TestAccounts(k)} : k \in TestKeys}

\* SAID.lookup (src/index.ts), after at most one earlier strict lookup.
LookupStrict ==
    \E wallet \in TestWallets \cup InvalidWallets,
       rpc \in {RpcOk} \cup RpcErrors :
        /\ \/ call = Idle
           \/ call.op = "lookup" /\ call.variant = "src" /\ call.prev = Idle
        /\ call' = [op |-> "lookup", variant |-> "src", wallet |-> wallet,
                    rpc |-> rpc, out |-> lookup(wallet, rpc), prev |-> call]
        /\ UNCHANGED chain

\* SAID.lookup (dist build).
LookupDist ==
    \E wallet \in TestWallets \cup InvalidWallets,
       rpc \in {RpcOk} \cup RpcErrors :
        /\ call = Idle
        /\ call' = [op |-> "lookup", variant |-> "dist", wallet |-> wallet,
                    rpc |-> rpc, out |-> lookupDist(wallet, rpc),
                    prev |-> call]
        /\ UNCHANGED chain

\* SAID.lookupByPDA (src/index.ts) of an identity address, of an address that
\* is none, or of a string that is no address; on its own or after a strict
\* lookup.
LookupByPDA ==
    \E pda \in {IdentityAddress(k) : k \in TestKeys} \cup TestWallets
                   \cup InvalidWallets,
       rpc \in {RpcOk} \cup RpcErrors :
        /\ \/ call = Idle
           \/ call.op = "lookup" /\ call.variant = "src" /\ call.prev = Idle
        /\ call' = [op |-> "lookupByPDA", pda |-> pda, rpc |-> rpc,
                    out |-> lookupByPDA(pda, rpc), prev |-> call]
        /\ UNCHANGED chain

\* SAID.isVerified (src/index.ts).
IsVerified ==
    \E wallet \in TestWallets \cup InvalidWallets,
       rpc \in {RpcOk} \cup RpcErrors :
        /\ call = Idle
        /\ call' = [op |-> "isVerified", variant |-> "src",
                    wallet |-> wallet, rpc |-> rpc,
                    out |-> isVerified(wallet, rpc)]
        /\ UNCHANGED chain

\* SAID.getCard (src/index.ts).
GetCard ==
    \E wallet \in TestWallets \cup InvalidWallets,
       rpc \in {RpcOk} \cup RpcErrors, http \in HttpOutcomes :
        /\ call = Idle
        /\ call' = [op |-> "getCard", variant |-> "src", wallet |-> wallet,
                    rpc |-> rpc, http |-> http,
                    out |-> getCard(wallet, rpc, http)]
        /\ UNCHANGED chain

\* SAID.getAgent (src/index.ts).
GetAgent ==
    \E wallet \in TestWallets \cup InvalidWallets,
       rpc \in {RpcOk} \cup RpcErrors, cardRpc \in {RpcOk} \cup RpcErrors,
       http \in HttpOutcomes :
        /\ call = Idle
        /\ call' = [op |-> "getAgent", variant |-> "src", wallet |-> wallet,
                    rpc |-> rpc, cardRpc |-> cardRpc, http |-> http,
                    out |-> getAgent(wallet, rpc, cardRpc, http)]
        /\ UNCHANGED chain

\* SAID.getStats (src/index.ts).
GetStats ==
    \E rpc \in {RpcOk} \cup RpcErrors, order \in ScanOrders :
        /\ call = Idle
        /\ call' = [op |-> "getStats", rpc |-> rpc, order |-> order,
                    out |-> getStats(rpc, order)]
        /\ UNCHANGED chain

\* SAID.listAgents(options), up to the awaited Promise.all: with includeCards
\* and a non-failing scan, one fetch per agent is then in flight.
ListAgents ==
    \E includeCards \in BOOLEAN, rpc \in {RpcOk} \cup RpcErrors,
       order \in ScanOrders :
        /\ call = Idle
        /\ LET scanned == listAgentsScan(rpc, order)
               fetching == includeCards /\ "agents" \in DOMAIN scanned
           IN  call' = [op |-> "listAgents", includeCards |-> includeCards,
                        rpc |-> rpc, order |-> order,
                        phase |-> IF fetching THEN "fetching" ELSE "done",
                        agents |-> IF fetching THEN scanned.agents ELSE <<>>,
                        settled |-> <<>>, rejected |-> {},
                        out |-> IF fetching THEN Null
                                ELSE IF "agents" \in DOMAIN scanned
                                THEN Return(scanned.agents)
                                ELSE scanned]
        /\ UNCHANGED chain

\* One card fetch of listAgents settles, in any order, and its callback runs
\* to its end: the callback's promise is fulfilled or rejected.
FetchSettle ==
    /\ call.op = "listAgents"
    /\ call.phase = "fetching"
    /\ \E i \in DOMAIN call.agents \ DOMAIN call.settled,
          http \in HttpOutcomes :
           \E ended \in {cardCallback(call.agents[i], http)} :
               call' = [call EXCEPT
                   !.agents[i] = IF IsThrow(ended) THEN @ ELSE ended.returns,
                   !.rejected = IF IsThrow(ended) THEN @ \cup {i} ELSE @,
                   !.settled = [j \in DOMAIN call.settled \cup {i} |->
                                   IF j = i THEN http ELSE call.settled[j]]]
    /\ UNCHANGED chain

\* await Promise.all(...): it resolves once every callback's promise is
\* fulfilled and listAgents returns the agents; it rejects as soon as one is
\* rejected, which the outer catch turns into the empty list.
ListReturn ==
    /\ call.op = "listAgents"
    /\ call.phase = "fetching"
    /\ \/ /\ call.rejected = {}
          /\ DOMAIN call.settled = DOMAIN call.agents
          /\ call' = [call EXCEPT !.phase = "done",
                                  !.out = Return(call.agents)]
       \/ /\ call.rejected # {}
          /\ call' = [call EXCEPT !.phase = "done", !.out = Return(<<>>)]
    /\ UNCHANGED chain

\* ---------------------------------------------------- client: properties

IsLookup(c, variant) == c.op = "lookup" /\ c.variant = variant

\* The owner key a valid wallet argument denotes.
KeyOf(wallet) == CHOOSE k \in TestKeys : Denotes(wallet, k)

\* What the chain holds at the identity address of the wallet of call c.
AccountAt(c) == chain[IdentityAddress(KeyOf(c.wallet))]

HasRecordSize(c) ==
    AccountAt(c) # NoAccount /\ Len(AccountAt(c).data) = AGENT_ACCOUNT_SIZE

\* The text of the identity address of the wallet of call c.
AddressText(c) == PublicKeyToString(IdentityAddress(KeyOf(c.wallet)))

\* What the codec of the variant of call c makes of the account's data.
Decoded(c) ==
    IF c.variant = "src"
    THEN parseAgentData(AddressText(c), AccountAt(c).data).ret
    ELSE parseAgentDataDist(AddressText(c), AccountAt(c).data).ret

Answered(c) ==
    c.op = "lookup" /\ c.wallet \in TestWallets /\ c.rpc = RpcOk

\* C8 as stated: lookup returns null when the network reports no account at
\* the derived identity address or one whose data is not 263 bytes long, and
\* otherwise returns a record whose pubkey is the derived identity address.
C8_Original ==
    Answered(call) =>
        IF ~HasRecordSize(call) THEN call.out = Null
        ELSE /\ ~IsThrow(call.out)
             /\ call.out # Null
             /\ call.out.pubkey = AddressText(call)

\* C8, amended: lookup returns null when the network reports no account at
\* the derived identity address or one whose data is not 263 bytes long; on
\* 263 bytes that decode it returns the decoded record, whose pubkey is the
\* derived identity address; on 263 bytes that do not decode, src/index.ts
\* raises 'Failed to lookup agent: <decode error>' and the dist build returns
\* null.
C8_Lookup ==
    Answered(call) =>
        IF ~HasRecordSize(call) THEN call.out = Null
        ELSE IF ~IsThrow(Decoded(call))
        THEN /\ call.out = Decoded(call)
             /\ call.out.pubkey = AddressText(call)
        ELSE IF call.variant = "src"
        THEN call.out
                 = Throw(<<"Failed to lookup agent: ">> \o Decoded(call).throw)
        ELSE call.out = Null

\* The strict lookup of a registered owner, by the string form of its key,
\* returned its record under the identity address.
C8_Witness ==
    /\ IsLookup(call, "src")
    /\ call.wallet = Str(PublicKeyToString(Key(1)))
    /\ call.rpc = RpcOk
    /\ AccountAt(call) = [data |-> AccountOf(Key(1))]
    /\ call.out = AgentIdentity(<<IdentityAddress(Key(1))>>,
                                PublicKeyToString(Key(1)), Hello, 1700000000,
                                TRUE, 1700000500)

\* C9: lookup called with a string that is not a valid wallet address raises
\* an error; it returns neither null nor a record.
C9_InvalidWalletRaises ==
    (call.op = "lookup" /\ call.wallet \in InvalidWallets)
        => IsThrow(call.out)

\* Why call c of lookup did not return a record, told from its inputs.
Cause(c) ==
    IF c.wallet \in InvalidWallets THEN "address"
    ELSE IF c.rpc # RpcOk THEN "network"
    ELSE IF ~HasRecordSize(c) THEN "absent"
    ELSE IF IsThrow(Decoded(c)) THEN "decode"
    ELSE "record"

\* The kind of a result as the caller sees it: null, a record, or an Error of
\* the message prefix lookup gave it (lookup throws plain Errors only).
Kind(out) ==
    IF IsThrow(out) THEN out.throw[1]
    ELSE IF out = Null THEN "absent"
    ELSE "record"

\* C10: in the strict lookup an invalid address, a network failure and a
\* decode failure reach the caller as errors, and two calls that end for
\* different reasons among these and the absent account end in results of
\* different kinds.
C10_DistinctKinds ==
    (IsLookup(call, "src") /\ call.prev # Idle) =>
        /\ Cause(call) \in {"address", "network", "decode"}
               => IsThrow(call.out)
        /\ (/\ Cause(call) # Cause(call.prev)
            /\ {Cause(call), Cause(call.prev)}
                   \subseteq {"address", "network", "decode", "absent"})
               => Kind(call.out) # Kind(call.prev.out)

\* C11: for every wallet and every network outcome (no account, wrong size,
\* well-formed record, malformed record, RPC failure), lookupByPDA of the
\* wallet's identity address ends as lookup of the wallet does: the same
\* record, null, or an error.
C11_LookupByPDAAsLookup ==
    (/\ call.op = "lookupByPDA"
     /\ call.prev # Idle
     /\ call.prev.wallet \in TestWallets
     /\ call.pda = IdentityAddress(KeyOf(call.prev.wallet))
     /\ call.rpc = call.prev.rpc)
        => call.out = call.prev.out

FindsRecord(c) ==
    /\ c.wallet \in TestWallets
    /\ c.rpc = RpcOk
    /\ HasRecordSize(c)
    /\ ~IsThrow(Decoded(c))

\* C13: getCard returns null, and does not raise, on every failure while it
\* obtains the card of a found record: a fetch that fails, a response that is
\* not 2xx, a body that does not parse as JSON.
C13_GetCardFailures ==
    (/\ call.op = "getCard"
     /\ FindsRecord(call)
     /\ call.http \in {"unreachable", "status 404", "not JSON"})
        => call.out = Null

\* getCard of a registered wallet whose card URL served what is no JSON
\* returned null.
C13_Witness ==
    /\ call.op = "getCard"
    /\ FindsRecord(call)
    /\ Decoded(call).metadataUri = WwwUri
    /\ call.http = "not JSON"
    /\ call.out = Null

\* C14: whenever getAgent's lookup of the wallet returns a record, getAgent
\* returns that record and does not raise, whatever happens while the card is
\* retrieved; the card is set when the card fetch succeeds and unset
\* otherwise.
C14_GetAgent ==
    (call.op = "getAgent" /\ FindsRecord(call)) =>
        /\ ~IsThrow(call.out)
        /\ call.out # Null
        /\ \A f \in DOMAIN Decoded(call) : call.out[f] = Decoded(call)[f]
        /\ "card" \in DOMAIN call.out
               <=> /\ call.cardRpc = RpcOk
                   /\ call.http = "card"
                   /\ StartsWith(Decoded(call).metadataUri, HttpsScheme)

\* A finished listAgents call, and the i-th account its scan listed.
ListDone == call.op = "listAgents" /\ call.phase = "done"

Listed(i) ==
    parseAgentData(PublicKeyToString(call.order[i]),
                   chain[call.order[i]].data).ret

\* The scan answered and every account it listed decodes to a record.
Discovered ==
    /\ call.rpc = RpcOk
    /\ \A i \in DOMAIN call.order : ~IsThrow(Listed(i))

\* The metadata fetch of the i-th record failed: no response, a non-2xx
\* status, or a body that is not JSON.
FetchFailed(i) ==
    LET response == Fetch(call.settled[i], CardUrl(Listed(i).metadataUri))
    IN  \/ response = FetchError
        \/ ~response.ok
        \/ response.json = ParseError

\* C15: listAgents({ includeCards: true }) over any set of discovered records,
\* whichever of their metadata fetches fail and in whichever order they
\* settle, returns without raising every discovered record, with card unset on
\* exactly the records whose fetch failed.
C15_ListWithCards ==
    (ListDone /\ call.includeCards /\ Discovered) =>
        /\ ~IsThrow(call.out)
        /\ Len(call.out.returns) = Len(call.order)
        /\ \A i \in DOMAIN call.order :
            LET agent == call.out.returns[i]
            IN  /\ \A f \in DOMAIN Listed(i) : agent[f] = Listed(i)[f]
                /\ DOMAIN agent \ {"card"} = DOMAIN Listed(i)
                /\ "card" \notin DOMAIN agent <=> FetchFailed(i)
                /\ "card" \in DOMAIN agent =>
                       agent.card = CardAt(CardUrl(Listed(i).metadataUri))

C15_Witness ==
    /\ ListDone /\ call.includeCards /\ Discovered
    /\ Len(call.order) = NumKeys + 1
    /\ \E i, j, k \in DOMAIN call.order :
        /\ call.settled[i] = "card" /\ "card" \in DOMAIN call.out.returns[i]
        /\ call.settled[j] = "status 404"
        /\ "card" \notin DOMAIN call.out.returns[j]
        /\ call.settled[k] = "unreachable"
        /\ "card" \notin DOMAIN call.out.returns[k]

\* C16: listAgents returns the empty sequence and raises nothing whenever its
\* scan of the program's accounts fails, with includeCards set or not.
C16_ScanFailureEmpty ==
    (call.op = "listAgents" /\ call.rpc \in RpcErrors) =>
        /\ call.phase = "done"
        /\ call.out = Return(<<>>)

C16_Witness ==
    /\ ListDone /\ call.rpc \in RpcErrors /\ call.includeCards
    /\ Cardinality(ProgramAccounts) = NumKeys + 1
    /\ call.out = Return(<<>>)

\* The scanned accounts parseAgentData rejects, and those it decodes.
Undecodable ==
    {a \in ProgramAccounts :
        IsThrow(parseAgentData(PublicKeyToString(a), chain[a].data).ret)}

\* C28: when one account of the scan does not decode, listAgents returns the
\* empty sequence, with includeCards set or not and whatever else the scan
\* holds, and getStats reports total 0 and verified 0.
C28_OneMalformedEmptiesAll ==
    (call # Idle /\ call.op \in {"listAgents", "getStats"}
         /\ call.rpc = RpcOk /\ Undecodable # {}) =>
        IF call.op = "listAgents"
        THEN call.phase = "done" /\ call.out = Return(<<>>)
        ELSE call.out = [total |-> 0, verified |-> 0]

\* getStats over a scan of one account declaring a uriLength of 201 and two
\* well-formed records, one of them verified.
C28_Witness ==
    /\ call # Idle
    /\ call.op = "getStats"
    /\ call.rpc = RpcOk
    /\ Cardinality(Undecodable) = 1
    /\ Cardinality(ProgramAccounts \ Undecodable) = NumKeys
    /\ \E a \in ProgramAccounts \ Undecodable :
           parseAgentData(PublicKeyToString(a), chain[a].data).ret.isVerified
    /\ call.out = [total |-> 0, verified |-> 0]

\* listAgents is waiting for its card fetches; the fetches not yet settled.
ListFetching == call.op = "listAgents" /\ call.phase = "fetching"

Outstanding == DOMAIN call.agents \ DOMAIN call.settled

\* The step is the settling of one fetch with a failure.
FetchFails ==
    /\ ListFetching
    /\ \E i \in Outstanding :
        /\ DOMAIN call'.settled = DOMAIN call.settled \cup {i}
        /\ call'.settled[i] # "card"

\* C22: listAgents({ includeCards: true }) returns only at a moment when no
\* fetch it started is outstanding, with the whole list; a fetch that fails
\* leaves the call waiting, leaves every sibling's record and outstanding
\* fetch as they were, and every sibling can still settle; once the fetches
\* settle the call returns.
C22_ReturnsAfterAllSettle ==
    /\ [][(ListFetching /\ call'.phase = "done") =>
              /\ Outstanding = {}
              /\ call'.out = Return(call.agents)
              /\ Len(call.agents) = Len(call.order)]_vars
    /\ [][FetchFails =>
              /\ call'.phase = "fetching"
              /\ call'.agents = call.agents
              /\ Cardinality(Outstanding') = Cardinality(Outstanding) - 1]_vars
    /\ [](ListFetching =>
              \A j \in Outstanding :
                  ENABLED (/\ FetchSettle
                           /\ j \in DOMAIN call'.settled
                           /\ call'.settled[j] = "card"))
    /\ (ListFetching ~> ListDone)

C22_Witness ==
    /\ ListDone /\ call.includeCards
    /\ Len(call.order) = NumKeys + 1
    /\ DOMAIN call.settled = DOMAIN call.order
    /\ \E i, j \in DOMAIN call.order :
        /\ call.settled[i] = "unreachable"
        /\ call.settled[j] = "card"
        /\ "card" \in DOMAIN call.out.returns[j]

\* The host of an https URI: what stands between the scheme and the first
\* '/' after it.
UriHost(uri) ==
    LET rest == SubSeq(uri, Len(HttpsScheme) + 1, Len(uri))
        slash == StrIndexOf(rest, <<47>>)
    IN  IF ~StartsWith(uri, HttpsScheme) THEN <<>>
        ELSE IF slash = 0 THEN rest
        ELSE SubSeq(rest, 1, slash - 1)

\* A URI with the host saidprotocol.com moved to www.saidprotocol.com, and any
\* other URI as it is.
BareHostRewritten(uri) ==
    IF UriHost(uri) = SaidHost
    THEN HttpsScheme \o WwwSaidHost
             \o SubSeq(uri, Len(HttpsScheme) + Len(SaidHost) + 1, Len(uri))
    ELSE uri

\* The cards a finished getCard or listAgents call fetched, each with the
\* metadata URI of the record it was fetched for.
FetchedCards ==
    IF call = Idle THEN {}
    ELSE IF call.op = "getCard" /\ call.rpc = RpcOk
                /\ "servedAt" \in DOMAIN call.out
    THEN {[metadataUri |-> lookup(call.wallet, RpcOk).metadataUri,
           card |-> call.out]}
    ELSE IF call.op = "listAgents" /\ call.phase = "done"
                /\ "returns" \in DOMAIN call.out
    THEN {[metadataUri |-> call.out.returns[i].metadataUri,
           card |-> call.out.returns[i].card] :
             i \in {j \in DOMAIN call.out.returns :
                        "card" \in DOMAIN call.out.returns[j]}}
    ELSE {}

Init == chain \in TestChains /\ call = Idle

Next ==
    LookupStrict \/ LookupDist \/ LookupByPDA \/ IsVerified \/ GetCard
        \/ GetAgent \/ GetStats \/ ListAgents \/ FetchSettle \/ ListReturn

Spec == Init /\ [][Next]_vars


\* ------------------------------------- client: the fan-out, with fairness
\* listAgents alone, every started fetch settling in the end.
NextList == ListAgents \/ FetchSettle \/ ListReturn

SpecList ==
    /\ Init
    /\ [][NextList]_vars
    /\ WF_vars(FetchSettle)
    /\ WF_vars(ListReturn)

\* ------------------------------- client: getAgent on a chain that changes
\* SAID.getAgent(wallet) up to its first await: the lookup. A record found,
\* the call goes on to getCard; null or an error ends it.
GetAgentLookup ==
    \E wallet \in TestWallets \cup InvalidWallets,
       rpc \in {RpcOk} \cup RpcErrors :
        /\ call = Idle
        /\ LET agent == lookup(wallet, rpc)
               found == ~IsThrow(agent) /\ agent # Null
           IN  call' = [op |-> "getAgent", wallet |-> wallet,
                        phase |-> IF found THEN "card" ELSE "done",
                        agent |-> agent, out |-> agent]
        /\ UNCHANGED chain

\* The network between the two requests of a getAgent call: the program
\* replaces, closes or creates the account at the wallet's identity address.
RecordChanges ==
    /\ call # Idle
    /\ call.op = "getAgent"
    /\ call.phase = "card"
    /\ LET address == deriveAgentPDA(call.wallet).address
           owner == CHOOSE k \in TestKeys : IdentityAddress(k) = address
       IN  \E account \in TestAccounts(owner) \cup {NoAccount} :
               /\ account # chain[address]
               /\ chain' = [chain EXCEPT ![address] = account]
    /\ UNCHANGED call

\* SAID.getAgent(wallet) from the awaited getCard, which looks the wallet up
\* again on the chain as it then is, to the return.
GetAgentCard ==
    \E cardRpc \in {RpcOk} \cup RpcErrors, http \in HttpOutcomes :
        /\ call # Idle
        /\ call.op = "getAgent"
        /\ call.phase = "card"
        /\ LET carded(card) ==
                   IF IsThrow(card) THEN card
                   ELSE IF card # Null THEN WithCard(call.agent, card)
                   ELSE call.agent
           IN  call' = [call EXCEPT
                   !.phase = "done",
                   !.out = Awaited({carded(value) :
                               value \in {getCard(call.wallet, cardRpc,
                                                  http)}})]
        /\ UNCHANGED chain

NextAgent == GetAgentLookup \/ RecordChanges \/ GetAgentCard

SpecAgent == Init /\ [][NextAgent]_vars

\* C27: the card on the record getAgent returns is the card served at the
\* metadata URI of that record, also when the chain changed between the
\* call's two lookups.
C27_CardOfReturnedRecord ==
    (call # Idle /\ call.op = "getAgent" /\ call.phase = "done"
         /\ "card" \in DOMAIN call.out) =>
        call.out.card = CardAt(CardUrl(call.out.metadataUri))

\* ------------------------------------------------------------ write paths
VERIFICATION_FEE == 10000000

\* A Keypair: its public key, and a secret key known only by the key it
\* belongs to.
Keypair(publicKey) ==
    [publicKey |-> publicKey, secretKey |-> [secretKeyOf |-> publicKey]]

\* bs58.encode(wallet.secretKey), as a term over the secret key.
SecretKeyText(secretKey) == [bs58 |-> secretKey]

\* SystemProgram.transfer({ fromPubkey, toPubkey, lamports }): instruction 2
\* of the system program, the amount as an unsigned 64-bit integer.
SystemProgramTransfer(fromPubkey, toPubkey, lamports) ==
    TransactionInstruction(
        <<AccountMeta(fromPubkey, TRUE, TRUE),
          AccountMeta(toPubkey, FALSE, TRUE)>>,
        SystemProgramId,
        WriteUInt32LE(2) \o WriteUInt32LE(lamports) \o <<0, 0, 0, 0>>)

\* new Transaction().add(...instructions).
Transaction(instructions) == [instructions |-> instructions]

\* connection.getMinimumBalanceForRentExemption(AGENT_ACCOUNT_SIZE).
TestRents == {[rpc |-> "ok", lamports |-> 2721360]}

getMinimumBalanceForRentExemption(rpc) ==
    IF rpc.rpc = "ok" THEN Return(rpc.lamports) ELSE Throw(rpc.message)

\* What the cluster does with a submitted transaction.
SendOutcomes == {"confirmed", "rejected", "unconfirmed"}

\* The signature of a confirmed transaction.
Signature(tx, signers) ==
    [signatureOf |-> tx, by |-> {signers[i].publicKey : i \in DOMAIN signers}]

\* sendAndConfirmTransaction(connection, tx, signers, { commitment }): the
\* signature once the transaction is confirmed; throws when the cluster
\* rejects it or does not confirm it.
sendAndConfirmTransaction(tx, signers, outcome) ==
    IF outcome = "confirmed" THEN Signature(tx, signers)
    ELSE IF outcome = "rejected"
    THEN Throw(<<"Transaction simulation failed">>)
    ELSE Throw(<<"Transaction was not confirmed">>)

\* One submission, as the cluster saw it.
Submitted(tx, signers, outcome) ==
    [tx |-> tx, signers |-> signers, outcome |-> outcome]

\* A write operation's result and the transactions it submitted.
Ran(out, sent) == [out |-> out, sent |-> sent]

\* The funding transfer and the register instruction of createAgent, given
\* the lamports the funder hands over.
createAgentWith(wallet, funder, metadataUri, rent, lamports, outcome) ==
    LET agentPDA == deriveAgentPDA(wallet.publicKey).address
        registerIx ==
            buildRegisterInstruction(agentPDA, wallet.publicKey, metadataUri)
        tx == Transaction(
                  <<SystemProgramTransfer(funder.publicKey, wallet.publicKey,
                                          lamports),
                    registerIx>>)
        signers == <<funder, wallet>>
        sent == <<Submitted(tx, signers, outcome)>>
        returned(signature) ==
            IF IsThrow(signature) THEN Ran(signature, sent)
            ELSE Ran([wallet |-> wallet,
                      walletAddress |-> PublicKeyToString(wallet.publicKey),
                      secretKey |-> SecretKeyText(wallet.secretKey),
                      agentPDA |-> PublicKeyToString(agentPDA),
                      metadataUri |-> metadataUri,
                      txSignature |-> signature], sent)
    IN  IF IsThrow(rent) THEN Ran(rent, <<>>)
        ELSE Awaited({returned(value) :
                value \in {sendAndConfirmTransaction(tx, signers, outcome)}})

\* createAgent signing with the funder alone.
createAgent_FunderSigns(wallet, funder, metadataUri, rpc, outcome) ==
    LET rent == getMinimumBalanceForRentExemption(rpc)
        made == createAgentWith(wallet, funder, metadataUri, rent,
                                rent.returns * 2, outcome)
    IN  IF made.sent = <<>> THEN made
        ELSE Ran(made.out,
                 <<[made.sent[1] EXCEPT !.signers = <<funder>>]>>)

\* SAID.createAgent(options, funder, metadataUri), src/index.ts, with wallet
\* the keypair Keypair.generate() made.
createAgent(wallet, funder, metadataUri, rpc, outcome) ==
    LET rent == getMinimumBalanceForRentExemption(rpc)
    IN  createAgentWith(wallet, funder, metadataUri, rent, rent.returns * 2,
                        outcome)

\* SAID.createAgent, dist/index.mjs: the funder hands over rent + 1e5.
createAgentDist(wallet, funder, metadataUri, rpc, outcome) ==
    LET rent == getMinimumBalanceForRentExemption(rpc)
    IN  createAgentWith(wallet, funder, metadataUri, rent,
                        rent.returns + 100000, outcome)

\* SAID.registerAgent(wallet, metadataUri, funder?); funder is Null when
\* the caller passes none.
registerAgent(wallet, metadataUri, funder, outcome) ==
    LET agentPDA == deriveAgentPDA(wallet.publicKey).address
        registerIx ==
            buildRegisterInstruction(agentPDA, wallet.publicKey, metadataUri)
        tx == Transaction(<<registerIx>>)
        signers == IF funder # Null THEN <<funder, wallet>> ELSE <<wallet>>
        sent == <<Submitted(tx, signers, outcome)>>
        returned(signature) ==
            IF IsThrow(signature) THEN Ran(signature, sent)
            ELSE Ran([agentPDA |-> PublicKeyToString(agentPDA),
                      txSignature |-> signature], sent)
    IN  Awaited({returned(value) :
            value \in {sendAndConfirmTransaction(tx, signers, outcome)}})

\* verifyAgent returning whatever sendAndConfirmTransaction left behind.
verifyAgent_Swallow(wallet, outcome) ==
    LET agentPDA == deriveAgentPDA(wallet.publicKey).address
        verifyIx == buildVerifyInstruction(agentPDA, wallet.publicKey)
        tx == Transaction(<<verifyIx>>)
        signers == <<wallet>>
        sent == <<Submitted(tx, signers, outcome)>>
        returned(signature) ==
            IF IsThrow(signature) THEN Ran([txSignature |-> Null], sent)
            ELSE Ran([txSignature |-> signature], sent)
    IN  Awaited({returned(value) :
            value \in {sendAndConfirmTransaction(tx, signers, outcome)}})

\* SAID.verifyAgent(wallet).
verifyAgent(wallet, outcome) ==
    LET agentPDA == deriveAgentPDA(wallet.publicKey).address
        verifyIx == buildVerifyInstruction(agentPDA, wallet.publicKey)
        tx == Transaction(<<verifyIx>>)
        signers == <<wallet>>
        sent == <<Submitted(tx, signers, outcome)>>
        returned(signature) ==
            IF IsThrow(signature) THEN Ran(signature, sent)
            ELSE Ran([txSignature |-> signature], sent)
    IN  Awaited({returned(value) :
            value \in {sendAndConfirmTransaction(tx, signers, outcome)}})

\* { ...result, verified }.
WithVerified(result, verified) ==
    [f \in DOMAIN result \cup {"verified"} |->
        IF f = "verified" THEN verified ELSE result[f]]

\* createAndVerifyAgent without the try around verifyAgent.
createAndVerifyAgent_NoTry(wallet, funder, metadataUri, rpc, outcomes) ==
    LET created(made) ==
            LET result == made.out
                fundTx == Transaction(
                    <<SystemProgramTransfer(funder.publicKey,
                                            result.wallet.publicKey,
                                            VERIFICATION_FEE + 5000)>>)
                sent == made.sent
                            \o <<Submitted(fundTx, <<funder>>, outcomes[2])>>
                verified(ran) ==
                    IF IsThrow(ran.out) THEN Ran(ran.out, sent \o ran.sent)
                    ELSE Ran(WithVerified(result, TRUE), sent \o ran.sent)
                funded(signature) ==
                    IF IsThrow(signature) THEN Ran(signature, sent)
                    ELSE Awaited({verified(value) :
                            value \in {verifyAgent(result.wallet, outcomes[3])}})
            IN  IF IsThrow(result) THEN made
                ELSE Awaited({funded(value) :
                        value \in {sendAndConfirmTransaction(fundTx, <<funder>>,
                                                     outcomes[2])}})
    IN  Awaited({created(value) :
            value \in {createAgent(wallet, funder, metadataUri, rpc, outcomes[1])}})

\* createAndVerifyAgent going on to verifyAgent whatever became of the
\* funding transfer.
createAndVerifyAgent_FundIgnored(wallet, funder, metadataUri, rpc, outcomes) ==
    LET created(made) ==
            LET result == made.out
                fundTx == Transaction(
                    <<SystemProgramTransfer(funder.publicKey,
                                            result.wallet.publicKey,
                                            VERIFICATION_FEE + 5000)>>)
                sent == made.sent
                            \o <<Submitted(fundTx, <<funder>>, outcomes[2])>>
                verified(ran) ==
                    Ran(WithVerified(result, ~IsThrow(ran.out)),
                        sent \o ran.sent)
            IN  IF IsThrow(result) THEN made
                ELSE Awaited({verified(value) :
                        value \in {verifyAgent(result.wallet, outcomes[3])}})
    IN  Awaited({created(value) :
            value \in {createAgent(wallet, funder, metadataUri, rpc,
                                   outcomes[1])}})

\* SAID.createAndVerifyAgent(options, funder, metadataUri): createAgent, the
\* transfer of the verification fee, then verifyAgent inside a try.
createAndVerifyAgent(wallet, funder, metadataUri, rpc, outcomes) ==
    LET created(made) ==
            LET result == made.out
                fundTx == Transaction(
                    <<SystemProgramTransfer(funder.publicKey,
                                            result.wallet.publicKey,
                                            VERIFICATION_FEE + 5000)>>)
                sent == made.sent
                            \o <<Submitted(fundTx, <<funder>>, outcomes[2])>>
                verified(ran) ==
                    Ran(WithVerified(result, ~IsThrow(ran.out)),
                        sent \o ran.sent)
                funded(signature) ==
                    IF IsThrow(signature) THEN Ran(signature, sent)
                    ELSE Awaited({verified(value) :
                            value \in {verifyAgent(result.wallet, outcomes[3])}})
            IN  IF IsThrow(result) THEN made
                ELSE Awaited({funded(value) :
                        value \in {sendAndConfirmTransaction(fundTx, <<funder>>,
                                                     outcomes[2])}})
    IN  Awaited({created(value) :
            value \in {createAgent(wallet, funder, metadataUri, rpc, outcomes[1])}})

\* SAID.verifyAgent(wallet), dist/index.mjs: the instruction of the build's
\* own buildVerifyInstruction.
verifyAgentDist(wallet, outcome) ==
    LET agentPDA == deriveAgentPDA(wallet.publicKey).address
        verifyIx == buildVerifyInstructionDist(agentPDA, wallet.publicKey)
        tx == Transaction(<<verifyIx>>)
        signers == <<wallet>>
        sent == <<Submitted(tx, signers, outcome)>>
        returned(signature) ==
            IF IsThrow(signature) THEN Ran(signature, sent)
            ELSE Ran([txSignature |-> signature], sent)
    IN  Awaited({returned(value) :
            value \in {sendAndConfirmTransaction(tx, signers, outcome)}})

\* SAID.createAndVerifyAgent, dist/index.mjs.
createAndVerifyAgentDist(wallet, funder, metadataUri, rpc, outcomes) ==
    LET created(made) ==
            LET result == made.out
                fundTx == Transaction(
                    <<SystemProgramTransfer(funder.publicKey,
                                            result.wallet.publicKey,
                                            VERIFICATION_FEE + 5000)>>)
                sent == made.sent
                            \o <<Submitted(fundTx, <<funder>>, outcomes[2])>>
                verified(ran) ==
                    Ran(WithVerified(result, ~IsThrow(ran.out)),
                        sent \o ran.sent)
                funded(signature) ==
                    IF IsThrow(signature) THEN Ran(signature, sent)
                    ELSE Awaited({verified(value) :
                            value \in {verifyAgentDist(result.wallet,
                                                       outcomes[3])}})
            IN  IF IsThrow(result) THEN made
                ELSE Awaited({funded(value) :
                        value \in {sendAndConfirmTransaction(
                                       fundTx, <<funder>>, outcomes[2])}})
    IN  Awaited({created(value) :
            value \in {createAgentDist(wallet, funder, metadataUri, rpc,
                                       outcomes[1])}})

\* The placeholder discriminator of the multi-wallet module: an empty Buffer.
LINK_WALLET_DISCRIMINATOR == <<>>

\* deriveWalletLinkPDA(wallet).
deriveWalletLinkPDA(wallet) ==
    FindProgramAddressSync(<<"wallet", wallet.key>>, SAID_PROGRAM_ID)

\* linkWallet signing with the authority alone.
linkWallet_AuthoritySigns(authority, newWallet, outcome) ==
    LET agentPDA == deriveAgentPDA_MultiWallet(authority.publicKey).address
        walletLinkPDA == deriveWalletLinkPDA(newWallet.publicKey).address
        keys == <<AccountMeta(agentPDA, FALSE, FALSE),
                  AccountMeta(walletLinkPDA, FALSE, TRUE),
                  AccountMeta(authority.publicKey, TRUE, TRUE),
                  AccountMeta(newWallet.publicKey, TRUE, FALSE),
                  AccountMeta(SystemProgramId, FALSE, FALSE)>>
        linkIx == TransactionInstruction(keys, SAID_PROGRAM_ID,
                                         LINK_WALLET_DISCRIMINATOR)
        tx == Transaction(<<linkIx>>)
        signers == <<authority>>
        sent == <<Submitted(tx, signers, outcome)>>
        returned(signature) ==
            IF IsThrow(signature) THEN Ran(signature, sent)
            ELSE Ran([walletLinkPDA |-> PublicKeyToString(walletLinkPDA),
                      txSignature |-> signature], sent)
    IN  Awaited({returned(value) :
            value \in {sendAndConfirmTransaction(tx, signers, outcome)}})

\* linkWallet(connection, authority, newWallet) of the multi-wallet module.
linkWallet(authority, newWallet, outcome) ==
    LET agentPDA == deriveAgentPDA_MultiWallet(authority.publicKey).address
        walletLinkPDA == deriveWalletLinkPDA(newWallet.publicKey).address
        keys == <<AccountMeta(agentPDA, FALSE, FALSE),
                  AccountMeta(walletLinkPDA, FALSE, TRUE),
                  AccountMeta(authority.publicKey, TRUE, TRUE),
                  AccountMeta(newWallet.publicKey, TRUE, FALSE),
                  AccountMeta(SystemProgramId, FALSE, FALSE)>>
        linkIx == TransactionInstruction(keys, SAID_PROGRAM_ID,
                                         LINK_WALLET_DISCRIMINATOR)
        tx == Transaction(<<linkIx>>)
        signers == <<authority, newWallet>>
        sent == <<Submitted(tx, signers, outcome)>>
        returned(signature) ==
            IF IsThrow(signature) THEN Ran(signature, sent)
            ELSE Ran([walletLinkPDA |-> PublicKeyToString(walletLinkPDA),
                      txSignature |-> signature], sent)
    IN  Awaited({returned(value) :
            value \in {sendAndConfirmTransaction(tx, signers, outcome)}})

\* The discriminators of the CommonJS build, dist/index.js.
REGISTER_AGENT_DISCRIMINATOR_Cjs == <<51, 10, 104, 110, 50, 83, 175, 37>>

VERIFY_AGENT_DISCRIMINATOR == <<26, 117, 145, 70, 163, 102, 21, 103>>

\* SAID.buildRegisterInstruction(agentPDA, owner, metadataUri), dist/index.js.
buildRegisterInstructionCjs(agentPDA, owner, metadataUri) ==
    LET uriBytes == Utf8Bytes(metadataUri)
        uriLengthBuffer == WriteUInt32LE(Len(uriBytes))
        data == REGISTER_AGENT_DISCRIMINATOR_Cjs \o uriLengthBuffer
                    \o uriBytes
    IN  TransactionInstruction(
            <<AccountMeta(agentPDA, FALSE, TRUE),
              AccountMeta(owner, TRUE, TRUE),
              AccountMeta(SystemProgramId, FALSE, FALSE)>>,
            SAID_PROGRAM_ID, data)

\* SAID.buildVerifyInstruction(agentPDA, owner), dist/index.js.
buildVerifyInstructionCjs(agentPDA, owner) ==
    TransactionInstruction(
        <<AccountMeta(agentPDA, FALSE, TRUE),
          AccountMeta(owner, TRUE, TRUE),
          AccountMeta(TREASURY_PDA, FALSE, TRUE),
          AccountMeta(SystemProgramId, FALSE, FALSE)>>,
        SAID_PROGRAM_ID, VERIFY_AGENT_DISCRIMINATOR)

\* SAID.createAgent, dist/index.js: the funder hands over rent + 1e4.
createAgentCjs(wallet, funder, metadataUri, rpc, outcome) ==
    LET agentPDA == deriveAgentPDA(wallet.publicKey).address
        registerIx ==
            buildRegisterInstructionCjs(agentPDA, wallet.publicKey,
                                        metadataUri)
        rentExempt == getMinimumBalanceForRentExemption(rpc)
        tx == Transaction(
                  <<SystemProgramTransfer(funder.publicKey, wallet.publicKey,
                                          rentExempt.returns + 10000),
                    registerIx>>)
        signers == <<funder, wallet>>
        sent == <<Submitted(tx, signers, outcome)>>
        returned(signature) ==
            IF IsThrow(signature) THEN Ran(signature, sent)
            ELSE Ran([wallet |-> wallet,
                      walletAddress |-> PublicKeyToString(wallet.publicKey),
                      secretKey |-> SecretKeyText(wallet.secretKey),
                      agentPDA |-> PublicKeyToString(agentPDA),
                      metadataUri |-> metadataUri,
                      txSignature |-> signature], sent)
    IN  IF IsThrow(rentExempt) THEN Ran(rentExempt, <<>>)
        ELSE Awaited({returned(value) :
                value \in {sendAndConfirmTransaction(tx, signers, outcome)}})

\* SAID.registerAgent, dist/index.mjs: statement for statement that of
\* src/index.ts.
registerAgentDist(wallet, metadataUri, funder, outcome) ==
    registerAgent(wallet, metadataUri, funder, outcome)

\* SAID.registerAgent, dist/index.js.
registerAgentCjs(wallet, metadataUri, funder, outcome) ==
    LET agentPDA == deriveAgentPDA(wallet.publicKey).address
        registerIx ==
            buildRegisterInstructionCjs(agentPDA, wallet.publicKey,
                                        metadataUri)
        tx == Transaction(<<registerIx>>)
        signers == IF funder # Null THEN <<funder, wallet>> ELSE <<wallet>>
        sent == <<Submitted(tx, signers, outcome)>>
        returned(signature) ==
            IF IsThrow(signature) THEN Ran(signature, sent)
            ELSE Ran([agentPDA |-> PublicKeyToString(agentPDA),
                      txSignature |-> signature], sent)
    IN  Awaited({returned(value) :
            value \in {sendAndConfirmTransaction(tx, signers, outcome)}})

\* SAID.verifyAgent, dist/index.js.
verifyAgentCjs(wallet, outcome) ==
    LET agentPDA == deriveAgentPDA(wallet.publicKey).address
        verifyIx == buildVerifyInstructionCjs(agentPDA, wallet.publicKey)
        tx == Transaction(<<verifyIx>>)
        signers == <<wallet>>
        sent == <<Submitted(tx, signers, outcome)>>
        returned(signature) ==
            IF IsThrow(signature) THEN Ran(signature, sent)
            ELSE Ran([txSignature |-> signature], sent)
    IN  Awaited({returned(value) :
            value \in {sendAndConfirmTransaction(tx, signers, outcome)}})

\* ------------------------------------------------------ write paths: runs
\* Metadata URIs handed to the write paths.
WriteUris == {Hello, SaidUri, <<99, 97, 102, 233, 8364>>}

TestKeypairs == {Keypair(k) : k \in TestKeys}

\* SAID.createAgent (src/index.ts); Keypair.generate() makes a keypair that
\* differs from the funder's.
CreateAgent ==
    \E wallet \in TestKeypairs, funder \in TestKeypairs,
       metadataUri \in WriteUris, rpc \in TestRents \cup RpcErrors,
       outcome \in SendOutcomes :
        /\ call = Idle
        /\ wallet # funder
        /\ LET ran == createAgent(wallet, funder, metadataUri, rpc, outcome)
           IN  call' = [op |-> "createAgent", variant |-> "src",
                        wallet |-> wallet, funder |-> funder,
                        metadataUri |-> metadataUri, rpc |-> rpc,
                        outcomes |-> <<outcome>>,
                        out |-> ran.out, sent |-> ran.sent]
        /\ UNCHANGED chain

\* SAID.createAgent (dist/index.mjs).
CreateAgentDist ==
    \E wallet \in TestKeypairs, funder \in TestKeypairs,
       metadataUri \in WriteUris, rpc \in TestRents \cup RpcErrors,
       outcome \in SendOutcomes :
        /\ call = Idle
        /\ wallet # funder
        /\ LET ran ==
                   createAgentDist(wallet, funder, metadataUri, rpc, outcome)
           IN  call' = [op |-> "createAgent", variant |-> "dist",
                        wallet |-> wallet, funder |-> funder,
                        metadataUri |-> metadataUri, rpc |-> rpc,
                        outcomes |-> <<outcome>>,
                        out |-> ran.out, sent |-> ran.sent]
        /\ UNCHANGED chain

\* SAID.registerAgent, with and without a funder of its own.
RegisterAgent ==
    \E wallet \in TestKeypairs, funder \in TestKeypairs \cup {Null},
       metadataUri \in WriteUris, outcome \in SendOutcomes :
        /\ call = Idle
        /\ LET ran == registerAgent(wallet, metadataUri, funder, outcome)
           IN  call' = [op |-> "registerAgent", variant |-> "src",
                        wallet |-> wallet, funder |-> funder,
                        metadataUri |-> metadataUri,
                        outcomes |-> <<outcome>>,
                        out |-> ran.out, sent |-> ran.sent]
        /\ UNCHANGED chain

\* SAID.verifyAgent.
VerifyAgent ==
    \E wallet \in TestKeypairs, outcome \in SendOutcomes :
        /\ call = Idle
        /\ LET ran == verifyAgent(wallet, outcome)
           IN  call' = [op |-> "verifyAgent", variant |-> "src",
                        wallet |-> wallet, outcomes |-> <<outcome>>,
                        out |-> ran.out, sent |-> ran.sent]
        /\ UNCHANGED chain

\* SAID.createAndVerifyAgent; outcomes are the cluster's answers to the
\* creation, funding and verification transactions.
CreateAndVerifyAgent ==
    \E wallet \in TestKeypairs, funder \in TestKeypairs,
       metadataUri \in WriteUris, rpc \in TestRents \cup RpcErrors,
       outcomes \in [1..3 -> SendOutcomes] :
        /\ call = Idle
        /\ wallet # funder
        /\ LET ran == createAndVerifyAgent(wallet, funder, metadataUri, rpc,
                                           outcomes)
           IN  call' = [op |-> "createAndVerifyAgent", variant |-> "src",
                        wallet |-> wallet, funder |-> funder,
                        metadataUri |-> metadataUri, rpc |-> rpc,
                        outcomes |-> outcomes,
                        out |-> ran.out, sent |-> ran.sent]
        /\ UNCHANGED chain

\* SAID.createAndVerifyAgent (dist/index.mjs).
CreateAndVerifyAgentDist ==
    \E wallet \in TestKeypairs, funder \in TestKeypairs,
       metadataUri \in WriteUris, rpc \in TestRents \cup RpcErrors,
       outcomes \in [1..3 -> SendOutcomes] :
        /\ call = Idle
        /\ wallet # funder
        /\ LET ran == createAndVerifyAgentDist(wallet, funder, metadataUri,
                                               rpc, outcomes)
           IN  call' = [op |-> "createAndVerifyAgent", variant |-> "dist",
                        wallet |-> wallet, funder |-> funder,
                        metadataUri |-> metadataUri, rpc |-> rpc,
                        outcomes |-> outcomes,
                        out |-> ran.out, sent |-> ran.sent]
        /\ UNCHANGED chain

\* linkWallet of the multi-wallet module.
LinkWallet ==
    \E authority \in TestKeypairs, newWallet \in TestKeypairs,
       outcome \in SendOutcomes :
        /\ call = Idle
        /\ LET ran == linkWallet(authority, newWallet, outcome)
           IN  call' = [op |-> "linkWallet", authority |-> authority,
                        newWallet |-> newWallet, outcomes |-> <<outcome>>,
                        out |-> ran.out, sent |-> ran.sent]
        /\ UNCHANGED chain

\* SAID.createAgent (dist/index.js).
CreateAgentCjs ==
    \E wallet \in TestKeypairs, funder \in TestKeypairs,
       metadataUri \in WriteUris, rpc \in TestRents \cup RpcErrors,
       outcome \in SendOutcomes :
        /\ call = Idle
        /\ wallet # funder
        /\ LET ran ==
                   createAgentCjs(wallet, funder, metadataUri, rpc, outcome)
           IN  call' = [op |-> "createAgent", variant |-> "cjs",
                        wallet |-> wallet, funder |-> funder,
                        metadataUri |-> metadataUri, rpc |-> rpc,
                        outcomes |-> <<outcome>>,
                        out |-> ran.out, sent |-> ran.sent]
        /\ UNCHANGED chain

\* SAID.registerAgent (dist/index.js).
RegisterAgentCjs ==
    \E wallet \in TestKeypairs, funder \in TestKeypairs \cup {Null},
       metadataUri \in WriteUris, outcome \in SendOutcomes :
        /\ call = Idle
        /\ LET ran == registerAgentCjs(wallet, metadataUri, funder, outcome)
           IN  call' = [op |-> "registerAgent", variant |-> "cjs",
                        wallet |-> wallet, funder |-> funder,
                        metadataUri |-> metadataUri,
                        outcomes |-> <<outcome>>,
                        out |-> ran.out, sent |-> ran.sent]
        /\ UNCHANGED chain

\* SAID.verifyAgent (dist/index.js).
VerifyAgentCjs ==
    \E wallet \in TestKeypairs, outcome \in SendOutcomes :
        /\ call = Idle
        /\ LET ran == verifyAgentCjs(wallet, outcome)
           IN  call' = [op |-> "verifyAgent", variant |-> "cjs",
                        wallet |-> wallet, outcomes |-> <<outcome>>,
                        out |-> ran.out, sent |-> ran.sent]
        /\ UNCHANGED chain

\* ------------------------------------------------ write paths: properties

\* The instruction moves lamports from one key to another.
IsTransfer(ix, fromPubkey, toPubkey) ==
    /\ ix.programId = SystemProgramId
    /\ Len(ix.keys) = 2
    /\ ix.keys[1].pubkey = fromPubkey /\ ix.keys[1].isSigner
    /\ ix.keys[2].pubkey = toPubkey
    /\ SubSeq(ix.data, 1, 4) = <<2, 0, 0, 0>>

\* The instruction registers owner's identity address under metadataUri.
IsRegister(ix, owner, metadataUri) ==
    /\ ix.programId = SAID_PROGRAM_ID
    /\ Len(ix.keys) = 3
    /\ ix.keys[1].pubkey = IdentityAddress(owner)
    /\ ix.keys[2].pubkey = owner /\ ix.keys[2].isSigner
    /\ SubSeq(ix.data, 1, 8) = REGISTER_AGENT_DISCRIMINATOR
    /\ Utf8ToString(SubSeq(ix.data, 13, Len(ix.data))) = metadataUri

SignerKeys(submitted) ==
    {submitted.signers[i].publicKey : i \in DOMAIN submitted.signers}

\* C17: createAgent (src/index.ts and dist/index.mjs) submits at most one
\* transaction, and exactly one once the rent query has answered: the funding
\* transfer from the funder to the generated wallet followed by the register
\* instruction for that wallet's identity address, signed by exactly the
\* funder and the wallet; when the transaction is rejected or not confirmed
\* the call raises.
C17_CreateAgentTransaction ==
    (call.op = "createAgent" /\ call.variant \in {"src", "dist"}) =>
        /\ Len(call.sent) <= 1
        /\ call.rpc \in TestRents => Len(call.sent) = 1
        /\ \A n \in DOMAIN call.sent :
            LET ixs == call.sent[n].tx.instructions
            IN  /\ Len(ixs) = 2
                /\ IsTransfer(ixs[1], call.funder.publicKey,
                              call.wallet.publicKey)
                /\ IsRegister(ixs[2], call.wallet.publicKey,
                              call.metadataUri)
                /\ Len(call.sent[n].signers) = 2
                /\ SignerKeys(call.sent[n])
                       = {call.funder.publicKey, call.wallet.publicKey}
        /\ call.outcomes[1] # "confirmed" => IsThrow(call.out)

C17_Witness ==
    /\ call.op = "createAgent" /\ call.variant = "src"
    /\ call.rpc \in TestRents
    /\ call.outcomes[1] = "rejected"
    /\ Len(call.sent) = 1
    /\ call.out = Throw(<<"Transaction simulation failed">>)

\* C18: createAndVerifyAgent whose creation and funding transactions are
\* confirmed and whose verification transaction is rejected or not confirmed
\* does not raise; it returns verified = false with wallet, walletAddress,
\* secretKey, agentPDA, metadataUri and the creation transaction's signature
\* as createAgent returned them.
C18_VerifyRejected ==
    (/\ call.op = "createAndVerifyAgent"
     /\ call.rpc \in TestRents
     /\ call.outcomes[1] = "confirmed" /\ call.outcomes[2] = "confirmed"
     /\ call.outcomes[3] # "confirmed") =>
        /\ ~IsThrow(call.out)
        /\ DOMAIN call.out = {"wallet", "walletAddress", "secretKey",
                              "agentPDA", "metadataUri", "txSignature",
                              "verified"}
        /\ call.out.verified = FALSE
        /\ call.out.wallet = call.wallet
        /\ call.out.walletAddress = PublicKeyToString(call.wallet.publicKey)
        /\ call.out.secretKey = SecretKeyText(call.wallet.secretKey)
        /\ call.out.agentPDA
               = PublicKeyToString(IdentityAddress(call.wallet.publicKey))
        /\ call.out.metadataUri = call.metadataUri
        /\ call.out.txSignature
               = Signature(call.sent[1].tx, call.sent[1].signers)

C18_Witness ==
    /\ call.op = "createAndVerifyAgent"
    /\ call.rpc \in TestRents
    /\ call.outcomes = <<"confirmed", "confirmed", "rejected">>
    /\ Len(call.sent) = 3
    /\ call.out.verified = FALSE

\* C19: createAgent, registerAgent and verifyAgent raise whenever the
\* transaction they submit is rejected or not confirmed, and return a
\* signature only of a transaction that was confirmed.
C19_WriteErrorsSurface ==
    call.op \in {"createAgent", "registerAgent", "verifyAgent"} =>
        /\ (\E n \in DOMAIN call.sent : call.sent[n].outcome # "confirmed")
               => IsThrow(call.out)
        /\ ~IsThrow(call.out) =>
               /\ Len(call.sent) = 1
               /\ call.sent[1].outcome = "confirmed"
               /\ call.out.txSignature
                      = Signature(call.sent[1].tx, call.sent[1].signers)

C19_Witness ==
    /\ call.op = "registerAgent"
    /\ call.funder # Null /\ call.funder # call.wallet
    /\ call.sent[1].outcome = "unconfirmed"
    /\ call.out = Throw(<<"Transaction was not confirmed">>)

\* The keys an instruction marks as signers.
MarkedSigners(ix) ==
    {ix.keys[i].pubkey : i \in {j \in DOMAIN ix.keys : ix.keys[j].isSigner}}

\* C21: linkWallet submits one transaction holding its link instruction,
\* signed by the current authority and by the new wallet, both of them marked
\* as signers in the instruction's accounts; no link transaction goes out
\* with one of the two signatures missing.
C21_LinkBothSign ==
    call.op = "linkWallet" =>
        /\ Len(call.sent) = 1
        /\ \A n \in DOMAIN call.sent :
            LET ixs == call.sent[n].tx.instructions
            IN  /\ Len(ixs) = 1
                /\ ixs[1].programId = SAID_PROGRAM_ID
                /\ ixs[1].keys[2].pubkey
                       = deriveWalletLinkPDA(call.newWallet.publicKey).address
                /\ MarkedSigners(ixs[1])
                       = {call.authority.publicKey, call.newWallet.publicKey}
                /\ SignerKeys(call.sent[n])
                       = {call.authority.publicKey, call.newWallet.publicKey}

C21_Witness ==
    /\ call.op = "linkWallet"
    /\ call.authority # call.newWallet
    /\ call.outcomes[1] = "confirmed"
    /\ Len(call.sent) = 1
    /\ Len(call.sent[1].signers) = 2
    /\ "txSignature" \in DOMAIN call.out

\* The instruction asks the SAID program to verify owner's identity.
IsVerify(ix, owner) ==
    /\ ix.programId = SAID_PROGRAM_ID
    /\ ix.data = GET_VERIFIED_DISCRIMINATOR
    /\ ix.keys[1].pubkey = IdentityAddress(owner)
    /\ \E i \in DOMAIN ix.keys : ix.keys[i].pubkey = owner /\ ix.keys[i].isSigner

C26_FundingRejectedLosesWallet ==
    (/\ call.op = "createAndVerifyAgent"
     /\ call.rpc \in TestRents
     /\ call.outcomes[1] = "confirmed"
     /\ call.outcomes[2] # "confirmed") =>
        /\ IsThrow(call.out)
        /\ DOMAIN call.out = {"throw"}
        /\ Len(call.sent) = 2
        /\ call.sent[1].outcome = "confirmed"
        /\ IsRegister(call.sent[1].tx.instructions[2],
                      call.wallet.publicKey, call.metadataUri)

C26_Witness ==
    /\ call.op = "createAndVerifyAgent" /\ call.variant = "dist"
    /\ call.rpc \in TestRents
    /\ call.outcomes[1] = "confirmed" /\ call.outcomes[2] = "rejected"
    /\ call.out = Throw(<<"Transaction simulation failed">>)
    /\ call.sent[1].outcome = "confirmed"

\* What dist/index.mjs submits for the inputs of a finished call.
SentByDist ==
    CASE call.op = "createAgent" ->
             createAgentDist(call.wallet, call.funder, call.metadataUri,
                             call.rpc, call.outcomes[1]).sent
      [] call.op = "registerAgent" ->
             registerAgentDist(call.wallet, call.metadataUri, call.funder,
                               call.outcomes[1]).sent
      [] call.op = "verifyAgent" ->
             verifyAgentDist(call.wallet, call.outcomes[1]).sent

\* C30: for the same inputs createAgent, registerAgent and verifyAgent of
\* dist/index.js submit the transactions dist/index.mjs submits: the same
\* instruction data, accounts in the same order and funding amount.
C30_BuildsEquivalent ==
    (call # Idle /\ "variant" \in DOMAIN call /\ call.variant = "cjs") =>
        call.sent = SentByDist

\* ---------------------------------------------- write paths: specification
InitWrite == chain = EmptyChain /\ call = Idle

NextWrite ==
    CreateAgent \/ CreateAgentDist \/ RegisterAgent \/ VerifyAgent
        \/ CreateAndVerifyAgent \/ CreateAndVerifyAgentDist \/ LinkWallet
        \/ CreateAgentCjs \/ RegisterAgentCjs \/ VerifyAgentCjs

SpecWrite == InitWrite /\ [][NextWrite]_vars


\* -------------------------------------------------------------------- CLI
\* A wallet file on disk: absent, not a keypair, or a keypair.
MissingFile == [file |-> "missing"]

MalformedFile == [file |-> "malformed"]

KeypairFile(keypair) == [file |-> "keypair", keypair |-> keypair]

\* JSON.parse(fs.readFileSync(path)) and Keypair.fromSecretKey on it.
readKeypair(file) ==
    IF file = MissingFile THEN Throw(<<"ENOENT: no such file or directory">>)
    ELSE IF file = MalformedFile THEN Throw(<<"bad secret key size">>)
    ELSE file.keypair

\* What a command left behind: the process's exit status and the
\* transactions it submitted.
Exited(status, sent) == [exit |-> status, sent |-> sent]

\* The status of a process whose action promise was rejected with nobody
\* awaiting it (program.parse() awaits nothing): a runtime that has the
\* global fetch this CLI calls throws on unhandled rejections.
UnhandledRejection == 1

\* said wallet generate: the output path is taken, or the write fails
\* outside any try, or the wallet is written.
saidWalletGenerate(exists, writeFails) ==
    IF exists THEN Exited(1, <<>>)
    ELSE IF writeFails THEN Exited(UnhandledRejection, <<>>)
    ELSE Exited(0, <<>>)

\* said wallet show.
saidWalletShow(file) ==
    IF file = MissingFile THEN Exited(1, <<>>)
    ELSE IF IsThrow(readKeypair(file)) THEN Exited(1, <<>>)
    ELSE Exited(0, <<>>)

\* The metadata URI said register settles on: the card URI the API answers
\* with, or the fallback under www.saidprotocol.com/agents/.
FallbackUri(wallet) ==
    HttpsScheme \o WwwSaidHost \o <<47, 97, 103, 101, 110, 116, 115, 47>>
        \o PublicKeyToString(wallet.publicKey) \o <<46, 106, 115, 111, 110>>

UploadedUri(upload, wallet) ==
    IF upload = "card" THEN SaidUri ELSE FallbackUri(wallet)

\* said register: keypair, lookup, card upload, registerAgent; every error
\* lands in the catch that exits 1.
saidRegister(file, rpc, upload, outcome) ==
    LET loaded(wallet) ==
            LET registered(ran) ==
                    IF IsThrow(ran.out) THEN Exited(1, ran.sent)
                    ELSE Exited(0, ran.sent)
                looked(existing) ==
                    IF IsThrow(existing) THEN Exited(1, <<>>)
                    ELSE IF existing # Null THEN Exited(1, <<>>)
                    ELSE Awaited({registered(value) :
                            value \in {registerAgent(wallet,
                                   UploadedUri(upload, wallet), Null,
                                   outcome)}})
            IN  IF IsThrow(wallet) THEN Exited(1, <<>>)
                ELSE Awaited({looked(value) :
                        value \in {lookup(wallet.publicKey, rpc)}})
    IN  Awaited({loaded(value) : value \in {readKeypair(file)}})

\* What the pending-registration API does with a request.
ApiOutcomes == {"unreachable", "not JSON", "success", "refused"}

\* said pending: the body is parsed whatever the status; success: false
\* prints a warning and falls off the end of the action.
saidPending(wallet, api) ==
    IF ~IsString(wallet) /\ IsThrow(readKeypair(wallet)) THEN Exited(1, <<>>)
    ELSE IF api = "unreachable" THEN Exited(1, <<>>)
    ELSE IF api = "not JSON" THEN Exited(1, <<>>)
    ELSE IF api = "success" THEN Exited(0, <<>>)
    ELSE Exited(0, <<>>)

\* The ownership checks of said verify: verifyTwitter, verifyDomain and
\* verifyGithub answer whether the proof was found, any other method is
\* unknown.
Methods == {"twitter", "domain", "github"}

\* said verify submitting whatever the ownership check answered.
saidVerify_Unchecked(file, rpc, skipCheck, method, found, outcome) ==
    LET loaded(wallet) ==
            LET submitted(ran) ==
                    IF IsThrow(ran.out) THEN Exited(1, ran.sent)
                    ELSE Exited(0, ran.sent)
                looked(agent) ==
                    IF IsThrow(agent) THEN Exited(1, <<>>)
                    ELSE IF agent = Null THEN Exited(1, <<>>)
                    ELSE IF agent.isVerified THEN Exited(0, <<>>)
                    ELSE IF ~skipCheck /\ method \notin Methods
                    THEN Exited(1, <<>>)
                    ELSE Awaited({submitted(value) :
                            value \in {verifyAgent(wallet, outcome)}})
            IN  IF IsThrow(wallet) THEN Exited(1, <<>>)
                ELSE Awaited({looked(value) :
                        value \in {lookup(wallet.publicKey, rpc)}})
    IN  Awaited({loaded(value) : value \in {readKeypair(file)}})

\* said verify.
saidVerify(file, rpc, skipCheck, method, found, outcome) ==
    LET loaded(wallet) ==
            LET submitted(ran) ==
                    IF IsThrow(ran.out) THEN Exited(1, ran.sent)
                    ELSE Exited(0, ran.sent)
                looked(agent) ==
                    IF IsThrow(agent) THEN Exited(1, <<>>)
                    ELSE IF agent = Null THEN Exited(1, <<>>)
                    ELSE IF agent.isVerified THEN Exited(0, <<>>)
                    ELSE IF ~skipCheck /\ method \notin Methods
                    THEN Exited(1, <<>>)
                    ELSE IF ~skipCheck /\ ~found THEN Exited(1, <<>>)
                    ELSE Awaited({submitted(value) :
                            value \in {verifyAgent(wallet, outcome)}})
            IN  IF IsThrow(wallet) THEN Exited(1, <<>>)
                ELSE Awaited({looked(value) :
                        value \in {lookup(wallet.publicKey, rpc)}})
    IN  Awaited({loaded(value) : value \in {readKeypair(file)}})

\* said lookup <wallet>.
saidLookup(wallet, rpc, cardRpc, http) ==
    LET looked(agent) ==
            LET carded(card) ==
                    IF IsThrow(card) THEN Exited(1, <<>>)
                    ELSE Exited(0, <<>>)
            IN  IF IsThrow(agent) THEN Exited(1, <<>>)
                ELSE IF agent = Null THEN Exited(1, <<>>)
                ELSE Awaited({carded(value) :
                        value \in {getCard(wallet, cardRpc, http)}})
    IN  Awaited({looked(value) : value \in {lookup(wallet, rpc)}})

\* said list: prints what listAgents({ includeCards: true }) returned.
saidList(rpc, order, http) ==
    LET listed(agents) ==
            IF IsThrow(agents) THEN Exited(1, <<>>) ELSE Exited(0, <<>>)
    IN  Awaited({listed(value) :
            value \in {listAgents(TRUE, rpc, order, http)}})

\* said stats: prints what getStats() returned.
saidStats(rpc, order) ==
    LET counted(stats) ==
            IF IsThrow(stats) THEN Exited(1, <<>>) ELSE Exited(0, <<>>)
    IN  Awaited({counted(value) : value \in {getStats(rpc, order)}})

\* -------------------------------------------------------------- CLI: runs
TestFiles ==
    {MissingFile, MalformedFile} \cup {KeypairFile(k) : k \in TestKeypairs}

WalletGenerate ==
    \E exists \in BOOLEAN, writeFails \in BOOLEAN :
        /\ call = Idle
        /\ call' = [op |-> "said", command |-> "wallet generate",
                    exists |-> exists, writeFails |-> writeFails,
                    ran |-> saidWalletGenerate(exists, writeFails)]
        /\ UNCHANGED chain

WalletShow ==
    \E file \in TestFiles :
        /\ call = Idle
        /\ call' = [op |-> "said", command |-> "wallet show", file |-> file,
                    ran |-> saidWalletShow(file)]
        /\ UNCHANGED chain

Register ==
    \E file \in TestFiles, rpc \in {RpcOk} \cup RpcErrors,
       upload \in HttpOutcomes, outcome \in SendOutcomes :
        /\ call = Idle
        /\ call' = [op |-> "said", command |-> "register", file |-> file,
                    rpc |-> rpc, upload |-> upload, outcome |-> outcome,
                    ran |-> saidRegister(file, rpc, upload, outcome)]
        /\ UNCHANGED chain

Pending ==
    \E wallet \in TestFiles \cup {w \in TestWallets : IsString(w)},
       api \in ApiOutcomes :
        /\ call = Idle
        /\ call' = [op |-> "said", command |-> "pending", wallet |-> wallet,
                    api |-> api, ran |-> saidPending(wallet, api)]
        /\ UNCHANGED chain

Verify ==
    \E file \in TestFiles, rpc \in {RpcOk} \cup RpcErrors,
       skipCheck \in BOOLEAN, method \in Methods \cup {"email"},
       found \in BOOLEAN, outcome \in SendOutcomes :
        /\ call = Idle
        /\ call' = [op |-> "said", command |-> "verify", file |-> file,
                    rpc |-> rpc, skipCheck |-> skipCheck,
                    method |-> method, found |-> found,
                    outcome |-> outcome,
                    ran |-> saidVerify(file, rpc, skipCheck, method, found,
                                       outcome)]
        /\ UNCHANGED chain

Lookup ==
    \E wallet \in {w \in TestWallets \cup InvalidWallets : IsString(w)},
       rpc \in {RpcOk} \cup RpcErrors, cardRpc \in {RpcOk} \cup RpcErrors,
       http \in HttpOutcomes :
        /\ call = Idle
        /\ call' = [op |-> "said", command |-> "lookup", wallet |-> wallet,
                    rpc |-> rpc, cardRpc |-> cardRpc, http |-> http,
                    ran |-> saidLookup(wallet, rpc, cardRpc, http)]
        /\ UNCHANGED chain

List ==
    \E rpc \in {RpcOk} \cup RpcErrors, order \in ScanOrders,
       http \in HttpOutcomes :
        /\ call = Idle
        /\ call' = [op |-> "said", command |-> "list", rpc |-> rpc,
                    order |-> order, http |-> http,
                    ran |-> saidList(rpc, order,
                                     [i \in DOMAIN order |-> http])]
        /\ UNCHANGED chain

Stats ==
    \E rpc \in {RpcOk} \cup RpcErrors, order \in ScanOrders :
        /\ call = Idle
        /\ call' = [op |-> "said", command |-> "stats", rpc |-> rpc,
                    order |-> order, ran |-> saidStats(rpc, order)]
        /\ UNCHANGED chain

\* ------------------------------------------------------- CLI: properties

\* A confirmed transaction is among those the command submitted.
Confirmed ==
    \E n \in DOMAIN call.ran.sent : call.ran.sent[n].outcome = "confirmed"

\* The record the chain holds for the wallet of a keypair file, Null if none.
RecordOf(file) ==
    IF file \in {MissingFile, MalformedFile} THEN Null
    ELSE lookup(file.keypair.publicKey, RpcOk)

\* The operation a command stands for was carried out.
Succeeded ==
    CASE call.command = "wallet generate" ->
             ~call.exists /\ ~call.writeFails
      [] call.command = "wallet show" ->
             call.file \notin {MissingFile, MalformedFile}
      [] call.command = "register" -> Confirmed
      [] call.command = "pending" ->
             /\ call.wallet \notin {MissingFile, MalformedFile}
             /\ call.api = "success"
      [] call.command = "verify" ->
             \/ Confirmed
             \/ /\ call.rpc = RpcOk
                /\ ~IsThrow(RecordOf(call.file))
                /\ RecordOf(call.file) # Null
                /\ RecordOf(call.file).isVerified
      [] call.command = "lookup" ->
             /\ call.rpc = RpcOk /\ call.cardRpc = RpcOk
             /\ ~IsThrow(lookup(call.wallet, RpcOk))
             /\ lookup(call.wallet, RpcOk) # Null
      [] call.command \in {"list", "stats"} -> call.rpc = RpcOk

\* C20: every subcommand exits with a non-zero status when its operation
\* failed and with status zero only when it succeeded.
C20_ExitStatus ==
    call.op = "said" => (call.ran.exit = 0 <=> Succeeded)

\* The same, for the subcommands that are not built on listAgents or on the
\* pending-registration API.
C20_OtherCommands ==
    (call.op = "said" /\ call.command \notin {"list", "stats", "pending"})
        => (call.ran.exit = 0 <=> Succeeded)

\* said list and said stats exit 0 after a failed scan; said pending exits 0
\* after the API refused the registration.
C20_ListAfterFailedScan ==
    /\ call.op = "said" /\ call.command = "list"
    /\ call.rpc \in RpcErrors
    /\ call.ran.exit = 0

C20_StatsAfterFailedScan ==
    /\ call.op = "said" /\ call.command = "stats"
    /\ call.rpc \in RpcErrors
    /\ call.ran.exit = 0

C20_PendingRefused ==
    /\ call.op = "said" /\ call.command = "pending"
    /\ call.api = "refused"
    /\ call.ran.exit = 0

\* The registration check of a said verify run found a record that is not
\* verified yet.
VerifyRegisteredUnverified ==
    /\ call.file \notin {MissingFile, MalformedFile}
    /\ call.rpc = RpcOk
    /\ RecordOf(call.file) # Null
    /\ ~IsThrow(RecordOf(call.file))
    /\ ~RecordOf(call.file).isVerified

\* The ownership check of a said verify run passed, or was skipped.
VerifyCheckPassed ==
    call.skipCheck \/ (call.method \in Methods /\ call.found)

\* C25: said verify submits the verification transaction, once and signed by
\* the wallet of the keypair file, only when its lookup returned a record that
\* is not verified yet and the chosen ownership check (twitter, domain or
\* github) answered true or --skip-check was given; in every other run it
\* exits having submitted nothing.
C25_VerifyGated ==
    (call # Idle /\ call.command = "verify") =>
        IF VerifyRegisteredUnverified /\ VerifyCheckPassed
        THEN /\ Len(call.ran.sent) = 1
             /\ Len(call.ran.sent[1].tx.instructions) = 1
             /\ IsVerify(call.ran.sent[1].tx.instructions[1],
                         call.file.keypair.publicKey)
             /\ SignerKeys(call.ran.sent[1]) =
                    {call.file.keypair.publicKey}
        ELSE call.ran.sent = <<>>

\* An unverified record and a github check that passed without --skip-check:
\* the verification transaction was submitted and confirmed.
C25_Witness ==
    /\ call # Idle
    /\ call.command = "verify"
    /\ VerifyRegisteredUnverified
    /\ ~call.skipCheck
    /\ call.method = "github"
    /\ call.found
    /\ Len(call.ran.sent) = 1
    /\ call.ran.exit = 0

\* ---------------------------------------------------- CLI: specification
InitCli == chain \in TestChains /\ call = Idle

NextCli ==
    WalletGenerate \/ WalletShow \/ Register \/ Pending \/ Verify \/ Lookup
        \/ List \/ Stats

SpecCli == InitCli /\ [][NextCli]_vars

====
